---- MODULE Spec2Model ----
(***************************************************************************)
(* Verification model of the story-evolution rating engine and match      *)
(* scheduler (src/src/rankers/glicko_rank.py, src/src/rankers/elo_rank.py).*)
(*                                                                         *)
(* Numbers.  The program computes in IEEE doubles; TLC has 32-bit integers *)
(* only.  Every real quantity is therefore carried as a fixed-point        *)
(* integer:                                                                *)
(*   - internal Glicko-2 values (mu, phi, sigma, g, E, v, delta ...) in    *)
(*     units of 1/ONE = 10^-4;                                             *)
(*   - public rating and rd in tenths of a rating point (PUB units per     *)
(*     point), so that public -> internal -> public is exact, as it is to  *)
(*     within one ulp in doubles;                                          *)
(*   - the abscissa x of the volatility solve in units of 10^-6, the       *)
(*     program's convergence tolerance epsilon.                            *)
(* Every product and quotient is computed exactly and then rounded to the  *)
(* nearest unit; sqrt, exp and log are computed by the usual reductions    *)
(* and series to that resolution.                                          *)
(*                                                                         *)
(* Local variables.  A value the code computes once and reads several      *)
(* times is bound once, as the element of a singleton set                  *)
(* (CHOOSE r \in {body : x \in {value}} : TRUE), and read from the binding. *)
(***************************************************************************)
EXTENDS Integers, Sequences, FiniteSets, TLC

\* ------------------------------------------------------------------------
\* Fixed-point arithmetic
\* ------------------------------------------------------------------------

ONE == 10^4

PUB == 10^1

FINE == 10^2

Abs(x) == IF x < 0 THEN -x ELSE x

Sgn(x) == IF x < 0 THEN -1 ELSE 1

\* <<q, r>> with ra * b = q * c + r and 0 <= r < c, for 0 <= ra < c, b >= 0,
\* by binary decomposition of b, so that no intermediate exceeds 3 * c.
RECURSIVE MulDivPair(_, _, _)
MulDivPair(ra, b, c) ==
    IF b = 0 THEN <<0, 0>>
    ELSE CHOOSE r \in
             { <<2 * h[1] + ((2 * h[2] + (b % 2) * ra) \div c),
                 (2 * h[2] + (b % 2) * ra) % c>>
               : h \in {MulDivPair(ra, b \div 2, c)} } : TRUE

\* 2^31 - 1, the largest integer of the model checker's arithmetic
MAXINT == 2^30 + (2^30 - 1)

\* a * b / c for naturals (c > 0), rounded to the nearest integer: directly
\* where a * b fits, by binary decomposition where it does not.
MulDivNat(a, b, c) ==
    IF b = 0 \/ a <= (MAXINT - c) \div b
    THEN (a * b + (c \div 2)) \div c
    ELSE CHOOSE r \in
             { (a \div c) * b + p[1] + (IF 2 * p[2] >= c THEN 1 ELSE 0)
               : p \in {MulDivPair(a % c, b, c)} } : TRUE

\* a * b / c for integers (c # 0), rounded to the nearest integer.
MulDiv(a, b, c) ==
    CHOOSE r \in
        { Sgn(x) * Sgn(y) * Sgn(z) * MulDivNat(Abs(x), Abs(y), Abs(z))
          : x \in {a}, y \in {b}, z \in {c} } : TRUE

\* Product of two fixed-point numbers.
FMulNat(a, b) ==
    LET a1 == a \div ONE
        a0 == a % ONE
        b1 == b \div ONE
        b0 == b % ONE
    IN a1 * b1 * ONE + a1 * b0 + a0 * b1 + ((a0 * b0 + (ONE \div 2)) \div ONE)

FMul(a, b) ==
    CHOOSE r \in
        { Sgn(x) * Sgn(y) * FMulNat(Abs(x), Abs(y)) : x \in {a}, y \in {b} } : TRUE

\* Quotient of two fixed-point numbers.
FDiv(a, b) == MulDiv(a, ONE, b)

\* Division by a small integer, rounded to nearest.
IDiv(a, n) ==
    CHOOSE r \in { Sgn(x) * ((Abs(x) + (n \div 2)) \div n) : x \in {a} } : TRUE

\* Python's x / 2 on the grid: truncation toward zero.
Half(x) == CHOOSE r \in { Sgn(y) * (Abs(y) \div 2) : y \in {x} } : TRUE

\* floor(sqrt(n)) by bisection on [lo, hi].
RECURSIVE ISqrt(_, _, _)
ISqrt(n, lo, hi) ==
    IF lo >= hi THEN lo
    ELSE CHOOSE r \in
             { IF mid * mid <= n THEN ISqrt(n, mid, hi) ELSE ISqrt(n, lo, mid - 1)
               : mid \in {(lo + hi + 1) \div 2} } : TRUE

\* math.sqrt of a fixed-point number 0 <= a < 20.
FSqrtRound(n, r) == IF (r + 1) * (r + 1) - n <= n - r * r THEN r + 1 ELSE r

FSqrt(a) ==
    CHOOSE s \in
        { CHOOSE s2 \in { FSqrtRound(n, r) : r \in {ISqrt(n, 0, 46340)} } : TRUE
          : n \in {a * ONE} } : TRUE

\* ln 2
LN2 == 6931

\* sum_{k=0..7} r^k / k!, for 0 <= r < LN2
RECURSIVE ExpSeries(_, _, _, _)
ExpSeries(r, k, term, acc) ==
    IF k > 7 THEN acc
    ELSE CHOOSE s \in
             { ExpSeries(r, k + 1, t, a + t)
               : t \in {IDiv(FMul(term, r), k)}, a \in {acc} } : TRUE

\* math.exp of a fixed-point number: exp(x) = 2^k * exp(r), x = k ln 2 + r.
FExpNat(x) == ExpSeries(x % LN2, 1, ONE, ONE) * (2 ^ (x \div LN2))

FExp(x) ==
    CHOOSE r \in
        { IF y < 0 THEN FDiv(ONE, FExpNat(-y)) ELSE FExpNat(y) : y \in {x} } : TRUE

\* 2 * atanh(t) = 2 (t + t^3/3 + t^5/5 + t^7/7 + t^9/9)
RECURSIVE LnSeries(_, _, _, _)
LnSeries(t2, n, term, acc) ==
    IF n > 9 THEN 2 * acc
    ELSE CHOOSE s \in
             { LnSeries(t2, n + 2, w, a + IDiv(w, n))
               : w \in {FMul(term, t2)}, a \in {acc} } : TRUE

\* math.log of a fixed-point number x > 0: x = m * 2^k with 1 <= m < 2.
RECURSIVE FLnRed(_, _)
FLnRed(x, k) ==
    IF x >= 2 * ONE THEN FLnRed((x + 1) \div 2, k + 1)
    ELSE IF x < ONE THEN FLnRed(2 * x, k - 1)
    ELSE CHOOSE r \in
             { k * LN2 + LnSeries(t2, 3, t, t)
               : t \in {FDiv(x - ONE, x + ONE)},
                 t2 \in {FMul(FDiv(x - ONE, x + ONE), FDiv(x - ONE, x + ONE))} } : TRUE

FLn(x) == CHOOSE r \in { FLnRed(y, 0) : y \in {x} } : TRUE

\* ------------------------------------------------------------------------
\* Glicko-2 rating engine (glicko_rank.py)
\* ------------------------------------------------------------------------

\* 173.7178, the public / internal scale factor, in units of 1/ONE
GLICKO_SCALE == 1737178

\* 1500, the centre of the public scale, in rating points
BASE_RATING == 1500

\* Story defaults: rating 1500.0, rd 350.0 (rating points), sigma 0.06
DEFAULT_RATING == 1500

DEFAULT_RD == 350

DEFAULT_SIGMA == 600

\* GlickoRankingSystem.tau = 0.5
TAU == 5000

\* math.pi
PI == 31416

\* epsilon = 0.000001 of _update_player, in units of the x grid (10^-6)
EPSILON == 1

\* Q = math.log(10) / 400
Q == MulDiv(FLn(10 * ONE), 1, 400)

\* x / 173.7178 for a public x (tenths of a point), as an internal value
ToInternal(x) == MulDiv(x, (ONE \div PUB) * ONE, GLICKO_SCALE)

\* 173.7178 * x for an internal x, as a public value
ToPublic(x) == MulDiv(GLICKO_SCALE, x, (ONE \div PUB) * ONE)

\* Story(...) followed by __post_init__: _mu and _phi are derived from the
\* public rating and rd once, when the object is constructed.
Story(rating, rd, sigma, matches_played, wins, losses) ==
    [rating |-> rating, rd |-> rd, sigma |-> sigma,
     matches_played |-> matches_played, wins |-> wins, losses |-> losses,
     mu |-> ToInternal(rating - BASE_RATING * PUB),
     phi |-> ToInternal(rd)]

\* Story.update_public_ratings
update_public_ratings(s) ==
    [s EXCEPT !.rating = ToPublic(s.mu) + BASE_RATING * PUB,
              !.rd = ToPublic(s.phi)]

\* GlickoRankingSystem._g
g(phi) ==
    FDiv(ONE, FSqrt(ONE + FDiv(3 * FMul(FMul(Q, Q), FMul(phi, phi)), FMul(PI, PI))))

\* GlickoRankingSystem._E
E(mu, opponent_mu, opponent_phi) ==
    FDiv(ONE, ONE + FExp(-FMul(g(opponent_phi), mu - opponent_mu)))

\* One term of v_sum: g(opp._phi)^2 * E * (1 - E)
VTerm(g_opp, e) == FMul(FMul(FMul(g_opp, g_opp), e), ONE - e)

\* v_sum of _update_player: the opponents are read from the live objects st
RECURSIVE VSum(_, _, _, _)
VSum(st, mu, opponents, i) ==
    IF i > Len(opponents) THEN 0
    ELSE CHOOSE r \in
             { VTerm(g_opp, e) + rest
               : g_opp \in {g(st[opponents[i]].phi)},
                 e \in {E(mu, st[opponents[i]].mu, st[opponents[i]].phi)},
                 rest \in {VSum(st, mu, opponents, i + 1)} } : TRUE

\* delta_sum of _update_player
RECURSIVE DeltaSum(_, _, _, _, _)
DeltaSum(st, mu, opponents, outcomes, i) ==
    IF i > Len(opponents) THEN 0
    ELSE CHOOSE r \in
             { FMul(g_opp, outcomes[i] - e) + rest
               : g_opp \in {g(st[opponents[i]].phi)},
                 e \in {E(mu, st[opponents[i]].mu, st[opponents[i]].phi)},
                 rest \in {DeltaSum(st, mu, opponents, outcomes, i + 1)} } : TRUE

\* f(x) of _update_player, given ex = exp(x), d2 = delta^2 and p2 = phi^2;
\* x, a and the result are in units of 10^-6
VolFTerms(x, a, ex, d2, p2, v) ==
    MulDiv(FMul(ex, d2 - p2 - v - ex), ONE * FINE,
           2 * FMul(p2 + v + ex, p2 + v + ex))
    - MulDiv(x - a, ONE, FMul(TAU, TAU))

\* f(x) of _update_player
VolF(x, a, delta, phi, v) ==
    CHOOSE r \in
        { VolFTerms(x, a, ex, d2, p2, v)
          : ex \in {FExp(IDiv(x, FINE))},
            d2 \in {FMul(delta, delta)},
            p2 \in {FMul(phi, phi)} } : TRUE

\* k = 1; while f(a - k * tau) < 0: k += 1
RECURSIVE BracketK(_, _, _, _, _)
BracketK(k, a, delta, phi, v) ==
    IF VolF(a - k * TAU * FINE, a, delta, phi, v) < 0
    THEN BracketK(k + 1, a, delta, phi, v)
    ELSE k

\* The Illinois iteration of _update_player; yields the final A.  On the
\* grid f can vanish exactly at an iterate (fB = 0): the root is found and
\* the bracket has closed on B.
RECURSIVE Illinois(_, _, _, _, _, _, _, _)
IllinoisStep(A, B, fA, fB, C, a, delta, phi, v) ==
    CHOOSE r \in
        { IF (fC < 0 /\ fB > 0) \/ (fC > 0 /\ fB < 0)
          THEN Illinois(B, C, fB, fC, a, delta, phi, v)
          ELSE Illinois(A, C, hA, fC, a, delta, phi, v)
          : fC \in {VolF(C, a, delta, phi, v)}, hA \in {Half(fA)} } : TRUE

Illinois(A, B, fA, fB, a, delta, phi, v) ==
    IF fB = 0 THEN B
    ELSE IF ~(Abs(B - A) > EPSILON) THEN A
    ELSE CHOOSE r \in
             { IllinoisStep(A, B, fA, fB, C, a, delta, phi, v)
               : C \in {A + MulDiv(A - B, fA, fB - fA)} } : TRUE

\* sqrt(rd^2 + sigma^2) with both read on the public scale: rd in tenths of
\* a rating point, sigma in units of 1/ONE of a rating point
PublicRootSum(rd, sigma) ==
    IDiv(ISqrt(rd * rd * 100
               + MulDiv(sigma * PUB, sigma * PUB, (ONE * ONE) \div 100),
               0, 46340), 10)

\* Variant of the idle update that adds the volatility to the deviation on
\* the public scale
_update_player_no_matches_public(player) ==
    [player EXCEPT !.rd = PublicRootSum(player.rd, player.sigma)]

\* GlickoRankingSystem._update_player, a player without matches
_update_player_no_matches(player) ==
    update_public_ratings(
        [player EXCEPT !.phi = FSqrt(FMul(player.phi, player.phi)
                                     + FMul(player.sigma, player.sigma))])

\* Variant of NewPhi: the information of the period's matches (1 / v) is
\* left out of the new deviation
NewPhiWithoutMatches(phi_star, v) == phi_star

\* phi' = 1 / sqrt(1 / phi_star^2 + 1 / v)
NewPhi(phi_star, v) ==
    FDiv(ONE, FSqrt(FDiv(ONE, FMul(phi_star, phi_star)) + FDiv(ONE, v)))

\* _update_player from the new volatility on: phi_star, phi, mu and the
\* public values
UpdateFromSigma(player, v, delta_sum, sigma) ==
    CHOOSE r \in
        { update_public_ratings(
              [player EXCEPT !.sigma = sigma, !.phi = phi,
                             !.mu = player.mu + FMul(FMul(phi, phi), delta_sum)])
          : phi \in { NewPhi(FSqrt(FMul(player.phi, player.phi)
                                   + FMul(sigma, sigma)), v) } } : TRUE

\* _update_player from the bracket [a, B0] on: the Illinois iteration and
\* the new volatility
UpdateFromBracket(player, v, delta_sum, delta, a, B0) ==
    CHOOSE r \in
        { UpdateFromSigma(player, v, delta_sum, sigma)
          : sigma \in { FExp(IDiv(Illinois(a, B0,
                                             VolF(a, a, delta, player.phi, v),
                                             VolF(B0, a, delta, player.phi, v),
                                             a, delta, player.phi, v),
                                    2 * FINE)) } } : TRUE

\* The initial B of _update_player
InitialB(player, v, delta, a, d2, p2) ==
    IF d2 > p2 + v
    THEN FLn(d2 - p2 - v) * FINE
    ELSE a - BracketK(1, a, delta, player.phi, v) * TAU * FINE

\* _update_player from v and delta_sum on
UpdateFromSums(player, v, delta_sum, delta, a) ==
    CHOOSE r \in
        { UpdateFromBracket(player, v, delta_sum, delta, a, B0)
          : B0 \in { InitialB(player, v, delta, a, FMul(delta, delta),
                              FMul(player.phi, player.phi)) } } : TRUE

\* GlickoRankingSystem._update_player: the new value of player's object.
\* st maps story ids to the live Story objects; opponents is a list of ids.
_update_player(st, pid, opponents, outcomes) ==
    IF Len(opponents) = 0 THEN _update_player_no_matches(st[pid])
    ELSE CHOOSE r \in
             { CHOOSE r2 \in
                   { UpdateFromSums(st[pid], v, delta_sum, delta, a)
                     : delta \in {FMul(v, delta_sum)},
                       a \in {FLn(FMul(st[pid].sigma, st[pid].sigma)) * FINE} }
                   : TRUE
               : v \in {FDiv(ONE, VSum(st, st[pid].mu, opponents, 1))},
                 delta_sum \in {DeltaSum(st, st[pid].mu, opponents, outcomes, 1)} }
             : TRUE

\* ------------------------------------------------------------------------
\* Match scheduler of the Glicko-2 system (GlickoRankingSystem)
\* ------------------------------------------------------------------------

\* Bounds of the explored inputs
MaxRounds == 2

MaxConcurrent == 1

\* The `stories` argument of run_tournament: lists of Story objects, the
\* story_id of a story being its position in the list.
\*  - a single story (no tournament possible),
\*  - two freshly generated stories at the defaults,
\*  - two equally rated stories with a deviation of 100, and two with a
\*    deviation of 50 and a record of four matches each,
\*  - three stories loaded with ratings, deviations and counters of earlier
\*    tournaments.
Populations ==
    { << Story(DEFAULT_RATING * PUB, DEFAULT_RD * PUB, DEFAULT_SIGMA, 0, 0, 0) >>,
      << Story(DEFAULT_RATING * PUB, DEFAULT_RD * PUB, DEFAULT_SIGMA, 0, 0, 0),
         Story(DEFAULT_RATING * PUB, DEFAULT_RD * PUB, DEFAULT_SIGMA, 0, 0, 0) >>,
      << Story(DEFAULT_RATING * PUB, 100 * PUB, DEFAULT_SIGMA, 0, 0, 0),
         Story(DEFAULT_RATING * PUB, 100 * PUB, DEFAULT_SIGMA, 0, 0, 0) >>,
      << Story(1550 * PUB, 50 * PUB, DEFAULT_SIGMA, 4, 2, 2),
         Story(1550 * PUB, 50 * PUB, DEFAULT_SIGMA, 4, 1, 3) >>,
      << Story(1600 * PUB, 50 * PUB, DEFAULT_SIGMA, 2, 2, 0),
         Story(DEFAULT_RATING * PUB, DEFAULT_RD * PUB, DEFAULT_SIGMA, 0, 0, 0),
         Story(1400 * PUB, 200 * PUB, DEFAULT_SIGMA, 3, 1, 2) >> }

VARIABLES
    stories,                 \* the Story objects, by story_id
    num_rounds,              \* argument of run_tournament
    max_concurrent_matches,  \* argument of run_tournament
    pc,                      \* position in run_tournament
    match_pairs,             \* local of run_tournament
    concurrency,             \* local of run_tournament
    i,                       \* loop variable of the batch loop
    tasks,                   \* the conduct_match coroutines of the batch in flight
    all_match_results,       \* local of run_tournament
    match_history,           \* GlickoRankingSystem.match_history
    pre_update_ratings,      \* local of _process_rating_period
    judge_log,               \* per pairing: the calls the Judge Adapter received
    ret,                     \* value returned by run_tournament
    raised,                  \* an exception left run_tournament
    rating_periods,          \* number of calls of _process_rating_period so far
    initial_stories          \* the Story objects as run_tournament received them

\* The state of the evolution pipeline (pipeline.py, story_generator.py,
\* evolve.py); it stays put while a tournament of the rankers is explored.
VARIABLES
    conn,                    \* the rows of table stories behind self.conn, in rowid order
    config,                  \* EvolutionPipeline.config
    max_iterations,          \* argument of run_pipeline
    start_batch_number,      \* local of run_pipeline
    pipeline_pc,             \* position in run_pipeline
    cycle,                   \* loop variable i of the evolution loop
    success,                 \* local of run_pipeline
    iterations_completed,    \* stats["iterations_completed"]
    pipeline_ret,            \* value returned by run_pipeline
    exit_code,               \* value returned by evolve.main
    exported,                \* the rank_<n>_story.txt files written by export_top_stories
    steps,                   \* the steps the current run has executed, with their outcome
    judged,                  \* batch numbers whose tournament step has completed
    inserted,                \* story ids ever inserted into table stories
    runs                     \* number of run_pipeline invocations so far

tournament_vars ==
        <<stories, num_rounds, max_concurrent_matches, pc, match_pairs,
          concurrency, i, tasks, all_match_results, match_history,
          pre_update_ratings, judge_log, ret, raised, rating_periods,
          initial_stories>>

pipeline_vars ==
        <<conn, config, max_iterations, start_batch_number, pipeline_pc, cycle,
          success, iterations_completed, pipeline_ret, exit_code, exported,
          steps, judged, inserted, runs>>

vars == <<tournament_vars, pipeline_vars>>

StoryIds == 1..Len(stories)

None == [kind |-> "None"]

\* No pipeline is running: the tournament is called on its own
NoPipeline ==
    /\ conn = << >>
    /\ config = None
    /\ max_iterations = 0
    /\ start_batch_number = -1
    /\ pipeline_pc = "idle"
    /\ cycle = 0
    /\ success = TRUE
    /\ iterations_completed = 0
    /\ pipeline_ret = None
    /\ exit_code = None
    /\ exported = << >>
    /\ steps = << >>
    /\ judged = {}
    /\ inserted = {}
    /\ runs = 0

\* MatchResult(story1, story2, winner, loser, reasoning, timestamp); stories
\* are referred to by story_id, reasoning and timestamp are opaque.
MatchResult(story1, story2, winner, loser) ==
    [kind |-> "MatchResult", story1 |-> story1, story2 |-> story2,
     winner |-> winner, loser |-> loser]

\* random.shuffle: every ordering of the list
Shuffles(n) ==
    { p \in [1..n -> 1..n] : \A a, b \in 1..n : a # b => p[a] # p[b] }

\* Variant of PairUp that pops one story per pair, so that neighbouring pairs
\* overlap
RECURSIVE PairUpOverlapping(_)
PairUpOverlapping(available_stories) ==
    IF Len(available_stories) >= 2
    THEN << <<available_stories[Len(available_stories)],
              available_stories[Len(available_stories) - 1]>> >>
         \o PairUpOverlapping(SubSeq(available_stories, 1,
                                     Len(available_stories) - 1))
    ELSE << >>

\* while len(available_stories) >= 2: pop(), pop(), append the pair
RECURSIVE PairUp(_)
PairUp(available_stories) ==
    LET n == Len(available_stories)
    IN IF n >= 2
       THEN << <<available_stories[n], available_stories[n - 1]>> >>
            \o PairUp(SubSeq(available_stories, 1, n - 2))
       ELSE << >>

\* The pair lists `for _ in range(num_rounds)` can build
RECURSIVE RoundsOfPairs(_, _)
RoundsOfPairs(n, rounds) ==
    IF rounds <= 0 THEN { << >> }
    ELSE { before \o PairUp(p) : before \in RoundsOfPairs(n, rounds - 1),
                                 p \in Shuffles(n) }

\* GlickoRankingSystem.get_match_pairs: the set of lists it can return
get_match_pairs(n, rounds) ==
    IF n < 2 THEN { << >> } ELSE RoundsOfPairs(n, rounds)

\* Variant of conduct_match_result that maps the judge's label to story1 /
\* story2 without regard to the swap
conduct_match_result_unswapped(story1, story2, is_swapped, winner_label) ==
    IF winner_label = "model_1"
    THEN MatchResult(story1, story2, story1, story2)
    ELSE MatchResult(story1, story2, story2, story1)

\* conduct_match after the judge answered: who won, who lost
conduct_match_result(story1, story2, is_swapped, winner_label) ==
    LET winner_story ==
            IF is_swapped
            THEN (IF winner_label = "model_1" THEN story2 ELSE story1)
            ELSE (IF winner_label = "model_1" THEN story1 ELSE story2)
        loser_story == IF winner_story = story1 THEN story2 ELSE story1
    IN MatchResult(story1, story2, winner_story, loser_story)

\* Variant of conduct_match_error that records the failed match as a win of
\* story1
conduct_match_error_recorded(story1, story2) ==
    MatchResult(story1, story2, story1, story2)

\* conduct_match when the judge call raised or timed out: except -> None
conduct_match_error(story1, story2) == None

\* Variant of the isinstance filter that lets every gathered value through
IsAnyResult(res) == TRUE

\* isinstance(res, MatchResult)
IsMatchResult(res) == res.kind = "MatchResult"

\* first_story, second_story of conduct_match
first_story(story1, story2, is_swapped) == IF is_swapped THEN story2 ELSE story1

second_story(story1, story2, is_swapped) == IF is_swapped THEN story1 ELSE story2

\* Variant of RecordMatch that also moves the ratings as soon as the batch
\* is collected (an incremental update)
RecordMatchRated(st, res) ==
    [k \in DOMAIN st |->
        [st[k] EXCEPT
            !.rating = @ + (IF k = res.winner THEN PUB ELSE 0)
                         - (IF k = res.loser THEN PUB ELSE 0),
            !.wins = @ + (IF k = res.winner THEN 1 ELSE 0),
            !.losses = @ + (IF k = res.loser THEN 1 ELSE 0),
            !.matches_played = @ + (IF k = res.story1 THEN 1 ELSE 0)
                                 + (IF k = res.story2 THEN 1 ELSE 0)]]

\* Variant of RecordMatch that counts the match for story1 only
RecordMatchFirstStory(st, res) ==
    [k \in DOMAIN st |->
        [st[k] EXCEPT
            !.wins = @ + (IF k = res.winner THEN 1 ELSE 0),
            !.losses = @ + (IF k = res.loser THEN 1 ELSE 0),
            !.matches_played = @ + (IF k = res.story1 THEN 1 ELSE 0)]]

\* The body of `for res in batch_results` for one MatchResult
RecordMatch(st, res) ==
    [k \in DOMAIN st |->
        [st[k] EXCEPT
            !.wins = @ + (IF k = res.winner THEN 1 ELSE 0),
            !.losses = @ + (IF k = res.loser THEN 1 ELSE 0),
            !.matches_played = @ + (IF k = res.story1 THEN 1 ELSE 0)
                                 + (IF k = res.story2 THEN 1 ELSE 0)]]

\* The loop `for res in batch_results`, from position j on: the stories,
\* the results list, and whether the body raised (res.winner on an object
\* that is no MatchResult is an AttributeError)
RECURSIVE CollectResults(_, _, _, _)
CollectResults(st, collected, batch_results, j) ==
    IF j > Len(batch_results) THEN [st |-> st, results |-> collected, error |-> FALSE]
    ELSE LET res == batch_results[j]
         IN IF IsMatchResult(res)
            THEN IF res.kind = "MatchResult"
                 THEN CollectResults(RecordMatch(st, res), Append(collected, res),
                                     batch_results, j + 1)
                 ELSE [st |-> st, results |-> collected, error |-> TRUE]
            ELSE CollectResults(st, collected, batch_results, j + 1)

\* match_data[story_id]['opponents'] / ['outcomes'] of _process_rating_period
RECURSIVE Opponents(_, _)
Opponents(results, sid) ==
    IF Len(results) = 0 THEN << >>
    ELSE LET res == results[1]
         IN (IF res.winner = sid THEN <<res.loser>> ELSE << >>)
            \o (IF res.loser = sid THEN <<res.winner>> ELSE << >>)
            \o Opponents(Tail(results), sid)

RECURSIVE Outcomes(_, _)
Outcomes(results, sid) ==
    IF Len(results) = 0 THEN << >>
    ELSE LET res == results[1]
         IN (IF res.winner = sid THEN <<ONE>> ELSE << >>)
            \o (IF res.loser = sid THEN <<0>> ELSE << >>)
            \o Outcomes(Tail(results), sid)

\* Variant of UpdateOrder: the players in the order in which they first
\* appear in the results list, the idle players after them
RECURSIVE AppearanceOrder(_, _)
AppearanceOrder(results, seen) ==
    IF Len(results) = 0 THEN seen
    ELSE CHOOSE r \in
             { AppearanceOrder(Tail(results), with_loser)
               : with_loser \in
                   { IF \E a \in DOMAIN seen : seen[a] = results[1].winner
                     THEN (IF \E a \in DOMAIN seen : seen[a] = results[1].loser
                           THEN seen ELSE Append(seen, results[1].loser))
                     ELSE (IF \E a \in DOMAIN seen : seen[a] = results[1].loser
                           THEN Append(seen, results[1].winner)
                           ELSE Append(Append(seen, results[1].winner),
                                       results[1].loser)) } } : TRUE

RECURSIVE IdleAfter(_, _, _)
IdleAfter(order, n, k) ==
    IF k > n THEN order
    ELSE IF \E a \in DOMAIN order : order[a] = k
         THEN IdleAfter(order, n, k + 1)
         ELSE IdleAfter(Append(order, k), n, k + 1)

UpdateOrderByResults(n, results) == IdleAfter(AppearanceOrder(results, << >>), n, 1)

\* The order of `for story_id, data in match_data.items()`: match_data is
\* built from the stories list, so its keys are in list order.
UpdateOrder(n, results) == [k \in 1..n |-> k]

\* The update loop of _process_rating_period from position k of the order:
\* each _update_player call writes the player's object in place, and the next
\* call reads its opponents from those same objects.
RECURSIVE UpdatePlayers(_, _, _, _)
UpdatePlayers(st, results, order, k) ==
    IF k > Len(order) THEN st
    ELSE CHOOSE r \in
             { UpdatePlayers(updated, results, order, k + 1)
               : updated \in
                   { [st EXCEPT ![order[k]] =
                         _update_player(st, order[k], Opponents(results, order[k]),
                                        Outcomes(results, order[k]))] } } : TRUE

\* pre_update_ratings of _process_rating_period
PreUpdateRatings(st) ==
    [k \in DOMAIN st |->
        [rating |-> st[k].rating, rd |-> st[k].rd, sigma |-> st[k].sigma,
         wins |-> st[k].wins, losses |-> st[k].losses,
         matches_played |-> st[k].matches_played]]

\* Variant of HistoryEntry: the "before" ratings are read from the Story
\* objects when the entry is written, after the update
HistoryEntryLive(res, pre, st) ==
    [story1_id |-> res.story1, story2_id |-> res.story2, winner_id |-> res.winner,
     story1_rating_before |-> st[res.story1].rating,
     story2_rating_before |-> st[res.story2].rating,
     story1_rating_after |-> st[res.story1].rating,
     story2_rating_after |-> st[res.story2].rating]

\* One appended match_history entry
HistoryEntry(res, pre, st) ==
    [story1_id |-> res.story1, story2_id |-> res.story2, winner_id |-> res.winner,
     story1_rating_before |-> pre[res.story1].rating,
     story2_rating_before |-> pre[res.story2].rating,
     story1_rating_after |-> st[res.story1].rating,
     story2_rating_after |-> st[res.story2].rating]

\* GlickoRankingSystem._process_rating_period
_process_rating_period(st, results, history) ==
    CHOOSE r \in
        { [stories |-> after,
           pre_update_ratings |-> pre,
           match_history |->
               history \o [j \in 1..Len(results) |-> HistoryEntry(results[j], pre, after)]]
          : pre \in {PreUpdateRatings(st)},
            after \in {UpdatePlayers(st, results, UpdateOrder(Len(st), results), 1)} }
        : TRUE

\* Variant of Concurrency that ignores the configured limit
ConcurrencyUnlimited(max_concurrent, pairs) ==
    IF Len(pairs) = 0 THEN 1 ELSE Len(pairs)

\* concurrency = max_concurrent_matches if > 0 else len(match_pairs); 0 -> 1
Concurrency(max_concurrent, pairs) ==
    LET c == IF max_concurrent > 0 THEN max_concurrent ELSE Len(pairs)
    IN IF c = 0 THEN 1 ELSE c

\* batch = match_pairs[i:i + concurrency], as positions of match_pairs
BatchRange(pairs, start, c) ==
    (start + 1)..(IF start + c < Len(pairs) THEN start + c ELSE Len(pairs))

\* return len(all_match_results)
ReturnValue(results) == [kind |-> "int", value |-> Len(results)]

Init ==
    /\ stories \in Populations
    /\ num_rounds \in 0..MaxRounds
    /\ max_concurrent_matches \in -1..MaxConcurrent
    /\ pc = "start"
    /\ match_pairs = << >>
    /\ concurrency = 0
    /\ i = 0
    /\ tasks = << >>
    /\ all_match_results = << >>
    /\ match_history = << >>
    /\ pre_update_ratings = << >>
    /\ judge_log = << >>
    /\ ret = None
    /\ raised = FALSE
    /\ rating_periods = 0
    /\ initial_stories = stories
    /\ NoPipeline

\* run_tournament up to the batch loop: get_match_pairs, concurrency
StartTournament ==
    /\ pc = "start"
    /\ \E pairs \in get_match_pairs(Len(stories), num_rounds) :
          /\ match_pairs' = pairs
          /\ concurrency' = Concurrency(max_concurrent_matches, pairs)
          /\ judge_log' = [k \in 1..Len(pairs) |-> [calls |-> 0, outcome |-> "none"]]
    /\ i' = 0
    /\ pc' = "loop"
    /\ UNCHANGED <<stories, num_rounds, max_concurrent_matches, tasks,
                   all_match_results, match_history, pre_update_ratings, ret, raised,
                   rating_periods, initial_stories>>
    /\ UNCHANGED pipeline_vars

\* One iteration of the batch loop up to the await: the conduct_match
\* coroutines of the batch each draw their left/right order and call the judge.
IssueBatch ==
    /\ pc = "loop"
    /\ i < Len(match_pairs)
    /\ LET batch == BatchRange(match_pairs, i, concurrency)
       IN /\ \E swaps \in [batch -> BOOLEAN] :
                tasks' = [j \in 1..Cardinality(batch) |->
                            LET k == i + j
                                s1 == match_pairs[k][1]
                                s2 == match_pairs[k][2]
                            IN [pair |-> k, story1 |-> s1, story2 |-> s2,
                                is_swapped |-> swaps[k],
                                model_1_response |-> first_story(s1, s2, swaps[k]),
                                model_2_response |-> second_story(s1, s2, swaps[k]),
                                winner_label |-> "none",
                                status |-> "awaiting",
                                result |-> None]]
          /\ judge_log' = [k \in DOMAIN judge_log |->
                            IF k \in batch
                            THEN [calls |-> judge_log[k].calls + 1, outcome |-> "pending"]
                            ELSE judge_log[k]]
    /\ pc' = "gather"
    /\ UNCHANGED <<stories, num_rounds, max_concurrent_matches, match_pairs,
                   concurrency, i, all_match_results, match_history,
                   pre_update_ratings, ret, raised, rating_periods, initial_stories>>
    /\ UNCHANGED pipeline_vars

\* The judge answers the call of task j; conduct_match returns a MatchResult
JudgeAnswers(j, label) ==
    /\ pc = "gather"
    /\ j \in DOMAIN tasks
    /\ tasks[j].status = "awaiting"
    /\ tasks' = [tasks EXCEPT ![j] =
                    [@ EXCEPT !.status = "done",
                              !.winner_label = label,
                              !.result = conduct_match_result(tasks[j].story1,
                                                              tasks[j].story2,
                                                              tasks[j].is_swapped,
                                                              label)]]
    /\ judge_log' = [judge_log EXCEPT ![tasks[j].pair].outcome = "answered"]
    /\ UNCHANGED <<stories, num_rounds, max_concurrent_matches, pc, match_pairs,
                   concurrency, i, all_match_results, match_history,
                   pre_update_ratings, ret, raised, rating_periods, initial_stories>>
    /\ UNCHANGED pipeline_vars

\* The judge call of task j raises or exceeds the 120 s timeout
JudgeFails(j) ==
    /\ pc = "gather"
    /\ j \in DOMAIN tasks
    /\ tasks[j].status = "awaiting"
    /\ tasks' = [tasks EXCEPT ![j] =
                    [@ EXCEPT !.status = "done",
                              !.winner_label = "error",
                              !.result = conduct_match_error(tasks[j].story1,
                                                             tasks[j].story2)]]
    /\ judge_log' = [judge_log EXCEPT ![tasks[j].pair].outcome = "failed"]
    /\ UNCHANGED <<stories, num_rounds, max_concurrent_matches, pc, match_pairs,
                   concurrency, i, all_match_results, match_history,
                   pre_update_ratings, ret, raised, rating_periods, initial_stories>>
    /\ UNCHANGED pipeline_vars

\* asyncio.gather returns once every task of the batch is done; the rest of
\* the loop body records the results of the batch.
CollectBatch ==
    /\ pc = "gather"
    /\ \A j \in DOMAIN tasks : tasks[j].status = "done"
    /\ LET batch_results == [j \in DOMAIN tasks |-> tasks[j].result]
           got == CollectResults(stories, all_match_results, batch_results, 1)
       IN /\ stories' = got.st
          /\ all_match_results' = got.results
          /\ raised' = got.error
          /\ pc' = IF got.error THEN "done" ELSE "loop"
    /\ i' = i + concurrency
    /\ tasks' = << >>
    /\ UNCHANGED <<num_rounds, max_concurrent_matches, match_pairs, concurrency,
                   match_history, pre_update_ratings, judge_log, ret,
                   rating_periods, initial_stories>>
    /\ UNCHANGED pipeline_vars

\* After the last batch: _process_rating_period and the return
FinishTournament ==
    /\ pc = "loop"
    /\ ~(i < Len(match_pairs))
    /\ \E period \in {_process_rating_period(stories, all_match_results, match_history)} :
          /\ stories' = period.stories
          /\ pre_update_ratings' = period.pre_update_ratings
          /\ match_history' = period.match_history
    /\ rating_periods' = rating_periods + 1
    /\ ret' = ReturnValue(all_match_results)
    /\ pc' = "done"
    /\ UNCHANGED <<num_rounds, max_concurrent_matches, match_pairs, concurrency, i,
                   tasks, all_match_results, judge_log, raised, initial_stories>>
    /\ UNCHANGED pipeline_vars

Next ==
    \/ StartTournament
    \/ IssueBatch
    \/ \E j \in DOMAIN tasks, label \in {"model_1", "model_2"} : JudgeAnswers(j, label)
    \/ \E j \in DOMAIN tasks : JudgeFails(j)
    \/ CollectBatch
    \/ FinishTournament

Spec == Init /\ [][Next]_vars

\* ------------------------------------------------------------------------
\* Match scheduler of the Elo system (EloRankingSystem, elo_rank.py)
\*
\* The same variables carry the Elo tournament: stories holds the Elo Story
\* objects (elo in units of 1/ONE of a rating point), all_match_results the
\* local all_matches, match_history EloRankingSystem.match_history.
\* pre_update_ratings and rating_periods have no counterpart and stay put.
\* ------------------------------------------------------------------------

\* EloRankingSystem.k_factor, default 32
K_FACTOR == 32

\* math.log(10)
LN10 == FLn(10 * ONE)

\* Elo Story objects
EloStory(elo, matches_played, wins, losses) ==
    [elo |-> elo, matches_played |-> matches_played, wins |-> wins, losses |-> losses]

\* The `stories` argument of EloRankingSystem.run_tournament
EloPopulations ==
    { << EloStory(1500 * ONE, 0, 0, 0), EloStory(1500 * ONE, 0, 0, 0) >>,
      << EloStory(1532 * ONE, 2, 2, 0), EloStory(1500 * ONE, 0, 0, 0),
         EloStory(1468 * ONE, 2, 0, 2) >> }

\* EloRankingSystem.calculate_expected_score: 1 / (1 + 10 ** ((b - a) / 400))
calculate_expected_score(rating_a, rating_b) ==
    FDiv(ONE, ONE + FExp(FMul(IDiv(rating_b - rating_a, 400), LN10)))

\* EloRankingSystem.update_ratings: <<new_winner_rating, new_loser_rating>>
update_ratings(winner_rating, loser_rating) ==
    << winner_rating
         + K_FACTOR * (ONE - calculate_expected_score(winner_rating, loser_rating)),
       loser_rating
         - K_FACTOR * calculate_expected_score(loser_rating, winner_rating) >>

\* One round of EloRankingSystem.get_match_pairs with min_elo_difference = 0:
\* random.choice of story1 among the available stories, of story2 among the
\* rest, until fewer than two are left
RECURSIVE EloRoundPairs(_)
EloRoundPairs(available_stories) ==
    IF Cardinality(available_stories) < 2 THEN { << >> }
    ELSE UNION { UNION { { << <<story1, story2>> >> \o rest
                           : rest \in EloRoundPairs(available_stories \ {story1, story2}) }
                         : story2 \in available_stories \ {story1} }
                 : story1 \in available_stories }

\* EloRankingSystem.get_match_pairs: the set of lists it can return
RECURSIVE elo_get_match_pairs(_, _)
elo_get_match_pairs(n, rounds) ==
    IF rounds <= 0 THEN { << >> }
    ELSE { before \o round : before \in elo_get_match_pairs(n, rounds - 1),
                             round \in EloRoundPairs(1..n) }

\* winner_story of EloRankingSystem.conduct_match
elo_winner_story(story1, story2, is_swapped, winner_label) ==
    IF is_swapped
    THEN (IF winner_label = "model_1" THEN story2 ELSE story1)
    ELSE (IF winner_label = "model_1" THEN story1 ELSE story2)

\* loser_story of EloRankingSystem.conduct_match
elo_loser_story(story1, story2, is_swapped, winner_label) ==
    IF is_swapped
    THEN (IF winner_label = "model_1" THEN story1 ELSE story2)
    ELSE (IF winner_label = "model_1" THEN story2 ELSE story1)

\* The Story objects after EloRankingSystem.conduct_match has applied a
\* judged match: elo of winner and loser, matches_played, wins, losses
EloApplyMatch(st, story1, story2, winner, loser) ==
    CHOOSE r \in
        { [k \in DOMAIN st |->
              [st[k] EXCEPT
                  !.elo = IF k = winner THEN new[1]
                          ELSE IF k = loser THEN new[2] ELSE @,
                  !.matches_played = @ + (IF k = story1 THEN 1 ELSE 0)
                                       + (IF k = story2 THEN 1 ELSE 0),
                  !.wins = @ + (IF k = winner /\ k \in {story1, story2} THEN 1 ELSE 0),
                  !.losses = @ + (IF k = loser /\ k \in {story1, story2} THEN 1 ELSE 0)]]
          : new \in {update_ratings(st[winner].elo, st[loser].elo)} } : TRUE

\* Match(...) of EloRankingSystem.conduct_match
Match(story1, story2, winner, before, after) ==
    [kind |-> "Match", story1_id |-> story1, story2_id |-> story2,
     winner_id |-> winner,
     story1_elo_before |-> before[story1].elo,
     story2_elo_before |-> before[story2].elo,
     story1_elo_after |-> after[story1].elo,
     story2_elo_after |-> after[story2].elo]

\* The exception conduct_match raises when the judge call fails or times out
JudgeException == [kind |-> "Exception"]

\* isinstance(result, Exception)
IsException(result) == result.kind = "Exception"

\* The loop `for j, result in enumerate(batch_results)`: all_matches after it
RECURSIVE EloCollectResults(_, _, _)
EloCollectResults(all_matches, batch_results, j) ==
    IF j > Len(batch_results) THEN all_matches
    ELSE IF IsException(batch_results[j])
         THEN EloCollectResults(all_matches, batch_results, j + 1)
         ELSE EloCollectResults(Append(all_matches, batch_results[j]),
                                batch_results, j + 1)

\* Variant of OnBatchTimeout: `continue` with the next batch
OnBatchTimeoutContinue(pos, c) == [pc |-> "loop", i |-> pos + c]

\* except asyncio.TimeoutError: break -- the loop is left where it stands
OnBatchTimeout(pos, c) == [pc |-> "done", i |-> pos]

\* return all_matches
EloReturnValue(all_matches) == [kind |-> "list", value |-> all_matches]

\* TournamentRunner.run_tournament after elo_system.run_tournament has
\* returned: the entries written back to the stories file, one per story
updated_stories_data(st) ==
    [k \in DOMAIN st |->
       [story_id |-> k, elo |-> st[k].elo, matches_played |-> st[k].matches_played,
        wins |-> st[k].wins, losses |-> st[k].losses]]

InitElo ==
    /\ stories \in EloPopulations
    /\ num_rounds \in 0..MaxRounds
    /\ max_concurrent_matches \in -1..MaxConcurrent
    /\ pc = "start"
    /\ match_pairs = << >>
    /\ concurrency = 0
    /\ i = 0
    /\ tasks = << >>
    /\ all_match_results = << >>
    /\ match_history = << >>
    /\ pre_update_ratings = << >>
    /\ judge_log = << >>
    /\ ret = None
    /\ raised = FALSE
    /\ rating_periods = 0
    /\ initial_stories = stories
    /\ NoPipeline

\* EloRankingSystem.run_tournament up to the batch loop
EloStartTournament ==
    /\ pc = "start"
    /\ \E pairs \in elo_get_match_pairs(Len(stories), num_rounds) :
          /\ match_pairs' = pairs
          /\ concurrency' = Concurrency(max_concurrent_matches, pairs)
          /\ judge_log' = [k \in 1..Len(pairs) |-> [calls |-> 0, outcome |-> "none"]]
    /\ i' = 0
    /\ pc' = "loop"
    /\ UNCHANGED <<stories, num_rounds, max_concurrent_matches, tasks,
                   all_match_results, match_history, pre_update_ratings, ret, raised,
                   rating_periods, initial_stories>>
    /\ UNCHANGED pipeline_vars

\* One iteration of the batch loop up to the await of wait_for(gather(...)):
\* every conduct_match of the batch draws its order and calls the judge
EloIssueBatch ==
    /\ pc = "loop"
    /\ i < Len(match_pairs)
    /\ \E swaps \in [BatchRange(match_pairs, i, concurrency) -> BOOLEAN] :
          tasks' = [j \in 1..Cardinality(BatchRange(match_pairs, i, concurrency)) |->
                      [pair |-> i + j,
                       story1 |-> match_pairs[i + j][1],
                       story2 |-> match_pairs[i + j][2],
                       is_swapped |-> swaps[i + j],
                       model_1_response |-> first_story(match_pairs[i + j][1],
                                                        match_pairs[i + j][2],
                                                        swaps[i + j]),
                       model_2_response |-> second_story(match_pairs[i + j][1],
                                                         match_pairs[i + j][2],
                                                         swaps[i + j]),
                       winner_label |-> "none",
                       status |-> "awaiting",
                       result |-> None]]
    /\ judge_log' = [k \in DOMAIN judge_log |->
                      IF k \in BatchRange(match_pairs, i, concurrency)
                      THEN [calls |-> judge_log[k].calls + 1, outcome |-> "pending"]
                      ELSE judge_log[k]]
    /\ pc' = "gather"
    /\ UNCHANGED <<stories, num_rounds, max_concurrent_matches, match_pairs,
                   concurrency, i, all_match_results, match_history,
                   pre_update_ratings, ret, raised, rating_periods, initial_stories>>
    /\ UNCHANGED pipeline_vars

\* The judge answers task j: the rest of conduct_match runs without a
\* suspension point -- ratings, counters, match_history, the Match returned
EloJudgeAnswers(j, label) ==
    /\ pc = "gather"
    /\ j \in DOMAIN tasks
    /\ tasks[j].status = "awaiting"
    /\ \E after \in { EloApplyMatch(stories, tasks[j].story1, tasks[j].story2,
                                    elo_winner_story(tasks[j].story1, tasks[j].story2,
                                                     tasks[j].is_swapped, label),
                                    elo_loser_story(tasks[j].story1, tasks[j].story2,
                                                    tasks[j].is_swapped, label)) } :
          \E match \in { Match(tasks[j].story1, tasks[j].story2,
                               elo_winner_story(tasks[j].story1, tasks[j].story2,
                                                tasks[j].is_swapped, label),
                               stories, after) } :
              /\ stories' = after
              /\ match_history' = Append(match_history, match)
              /\ tasks' = [tasks EXCEPT ![j] =
                              [@ EXCEPT !.status = "done",
                                        !.winner_label = label,
                                        !.result = match]]
    /\ judge_log' = [judge_log EXCEPT ![tasks[j].pair].outcome = "answered"]
    /\ UNCHANGED <<num_rounds, max_concurrent_matches, pc, match_pairs,
                   concurrency, i, all_match_results, pre_update_ratings, ret,
                   raised, rating_periods, initial_stories>>
    /\ UNCHANGED pipeline_vars

\* The judge call of task j raises or exceeds 120 s: conduct_match raises
EloJudgeFails(j) ==
    /\ pc = "gather"
    /\ j \in DOMAIN tasks
    /\ tasks[j].status = "awaiting"
    /\ tasks' = [tasks EXCEPT ![j] =
                    [@ EXCEPT !.status = "done",
                              !.winner_label = "error",
                              !.result = JudgeException]]
    /\ judge_log' = [judge_log EXCEPT ![tasks[j].pair].outcome = "failed"]
    /\ UNCHANGED <<stories, num_rounds, max_concurrent_matches, pc, match_pairs,
                   concurrency, i, all_match_results, match_history,
                   pre_update_ratings, ret, raised, rating_periods, initial_stories>>
    /\ UNCHANGED pipeline_vars

\* gather returns within the 300 s: the results of the batch are recorded
EloCollectBatch ==
    /\ pc = "gather"
    /\ \A j \in DOMAIN tasks : tasks[j].status = "done"
    /\ all_match_results' =
          EloCollectResults(all_match_results,
                            [j \in DOMAIN tasks |-> tasks[j].result], 1)
    /\ i' = i + concurrency
    /\ pc' = "loop"
    /\ tasks' = << >>
    /\ UNCHANGED <<stories, num_rounds, max_concurrent_matches, match_pairs,
                   concurrency, match_history, pre_update_ratings, judge_log, ret,
                   raised, rating_periods, initial_stories>>
    /\ UNCHANGED pipeline_vars

\* The 300 s of wait_for elapse while a match of the batch is unresolved: the
\* outstanding conduct_match coroutines are cancelled and TimeoutError is
\* handled by run_tournament
EloBatchTimeout ==
    /\ pc = "gather"
    /\ \E j \in DOMAIN tasks : tasks[j].status = "awaiting"
    /\ judge_log' = [k \in DOMAIN judge_log |->
                      IF judge_log[k].outcome = "pending"
                      THEN [judge_log[k] EXCEPT !.outcome = "cancelled"]
                      ELSE judge_log[k]]
    /\ tasks' = << >>
    /\ pc' = OnBatchTimeout(i, concurrency).pc
    /\ i' = OnBatchTimeout(i, concurrency).i
    /\ ret' = IF OnBatchTimeout(i, concurrency).pc = "done"
              THEN EloReturnValue(all_match_results) ELSE ret
    /\ UNCHANGED <<stories, num_rounds, max_concurrent_matches, match_pairs,
                   concurrency, all_match_results, match_history,
                   pre_update_ratings, raised, rating_periods, initial_stories>>
    /\ UNCHANGED pipeline_vars

\* The loop is exhausted: return all_matches
EloFinishTournament ==
    /\ pc = "loop"
    /\ ~(i < Len(match_pairs))
    /\ ret' = EloReturnValue(all_match_results)
    /\ pc' = "done"
    /\ UNCHANGED <<stories, num_rounds, max_concurrent_matches, match_pairs,
                   concurrency, i, tasks, all_match_results, match_history,
                   pre_update_ratings, judge_log, raised, rating_periods,
                   initial_stories>>
    /\ UNCHANGED pipeline_vars

NextElo ==
    \/ EloStartTournament
    \/ EloIssueBatch
    \/ \E j \in DOMAIN tasks, label \in {"model_1", "model_2"} : EloJudgeAnswers(j, label)
    \/ \E j \in DOMAIN tasks : EloJudgeFails(j)
    \/ EloCollectBatch
    \/ EloBatchTimeout
    \/ EloFinishTournament

SpecElo == InitElo /\ [][NextElo]_vars

\* ------------------------------------------------------------------------
\* Evolution pipeline (src/core/pipeline.py, src/generators/story_generator.py,
\* src/utils/database.py, evolve.py)
\*
\* Table stories is the sequence conn of its rows in rowid order; ratings and
\* deviations are in tenths of a point (PUB), volatility in units of 1/ONE.
\* A story_id (uuid4 in the program) is a fresh positive integer, the text of
\* a story is named by the number of the generation call that produced it.
\* ------------------------------------------------------------------------

\* Bounds of the explored runs
MaxRuns == 2

MaxIterations == 1

\* export_top_stories(top_n = 5)
TOP_N == 5

\* One row of table stories (create_schema)
Row(story_id, batch_number, piece, rating, rd, sigma, generation_type, parent_story_id, matches_played, wins, losses, previous_batch_rating) ==
    [story_id |-> story_id, batch_number |-> batch_number, piece |-> piece,
     rating |-> rating, rd |-> rd, sigma |-> sigma,
     generation_type |-> generation_type, parent_story_id |-> parent_story_id,
     matches_played |-> matches_played, wins |-> wins, losses |-> losses,
     previous_batch_rating |-> previous_batch_rating]

\* The configuration file as load_config returns it: the keys the pipeline
\* and the generators read
Config(num_stories, top_stories_to_select, variants_per_story, include_original_stories) ==
    [num_stories |-> num_stories,
     glicko_initial_rating |-> DEFAULT_RATING * PUB,
     glicko_initial_rd |-> DEFAULT_RD * PUB,
     glicko_initial_volatility |-> DEFAULT_SIGMA,
     top_stories_to_select |-> top_stories_to_select,
     variants_per_story |-> variants_per_story,
     include_original_stories |-> include_original_stories]

\* The configurations explored
Configs ==
    { Config(1, 1, 1, TRUE),
      Config(2, 1, 2, TRUE),
      Config(2, 2, 1, FALSE),
      Config(2, 0, 1, TRUE),
      Config(2, 5, 1, TRUE) }

\* The database file as evolve.main finds it: with its rows, the batch
\* numbers a tournament has judged.
\*  - no file yet (create_schema leaves table stories empty);
\*  - a judged generation 0 of three stories;
\*  - a judged generation 1 of a promoted story and a variant, beside the
\*    two stories left behind in generation 0.
Databases ==
    { [rows |-> << >>, judged |-> {}],
      [rows |-> << Row(1, 0, 1, 1420 * PUB, 90 * PUB, 598, "initial", None, 4, 1, 3, None),
                   Row(2, 0, 2, 1610 * PUB, 80 * PUB, 601, "initial", None, 4, 3, 1, None),
                   Row(3, 0, 3, 1500 * PUB, 85 * PUB, 600, "initial", None, 4, 2, 2, None) >>,
       judged |-> {0}],
      [rows |-> << Row(1, 1, 1, 1580 * PUB, 70 * PUB, 600, "original_top_performer",
                       None, 2, 1, 1, 1600 * PUB),
                   Row(2, 0, 2, 1450 * PUB, 95 * PUB, 600, "initial", None, 2, 0, 2, None),
                   Row(3, 0, 3, 1580 * PUB, 95 * PUB, 600, "initial", None, 2, 1, 1, None),
                   Row(4, 1, 4, 1625 * PUB, 75 * PUB, 600, "variant", 1, 2, 1, 1, 1600 * PUB) >>,
       judged |-> {0, 1}] }

\* No tournament of the rankers is running
NoTournament ==
    /\ stories = << >>
    /\ num_rounds = 0
    /\ max_concurrent_matches = 0
    /\ pc = "start"
    /\ match_pairs = << >>
    /\ concurrency = 0
    /\ i = 0
    /\ tasks = << >>
    /\ all_match_results = << >>
    /\ match_history = << >>
    /\ pre_update_ratings = << >>
    /\ judge_log = << >>
    /\ ret = None
    /\ raised = FALSE
    /\ rating_periods = 0
    /\ initial_stories = << >>

\* raise Exception(...) in a step
Raised(type) == [kind |-> "Exception", type |-> type]

\* SELECT MAX(batch_number) FROM stories; -1 when there is no row
RECURSIVE MaxBatchNumber(_, _, _)
MaxBatchNumber(rows, k, best) ==
    IF k > Len(rows) THEN best
    ELSE MaxBatchNumber(rows, k + 1,
                        IF rows[k].batch_number > best THEN rows[k].batch_number ELSE best)

get_latest_batch_number(rows) == MaxBatchNumber(rows, 1, -1)

\* SELECT * FROM stories WHERE batch_number = ?  (rows in rowid order)
RECURSIVE RowsOfBatch(_, _, _)
RowsOfBatch(rows, batch_number, k) ==
    IF k > Len(rows) THEN << >>
    ELSE IF rows[k].batch_number = batch_number
         THEN << rows[k] >> \o RowsOfBatch(rows, batch_number, k + 1)
         ELSE RowsOfBatch(rows, batch_number, k + 1)

_load_stories_from_batch(rows, batch_number) ==
    IF RowsOfBatch(rows, batch_number, 1) = << >>
    THEN Raised("FileNotFoundError")
    ELSE RowsOfBatch(rows, batch_number, 1)

\* sorted(stories, key = rating, reverse = True) places a story behind every
\* story of a rating at least its own: the sort is stable
RECURSIVE InsertByRating(_, _, _)
InsertByRating(sorted, story, k) ==
    IF k > Len(sorted) THEN Append(sorted, story)
    ELSE IF sorted[k].rating >= story.rating
         THEN InsertByRating(sorted, story, k + 1)
         ELSE SubSeq(sorted, 1, k - 1) \o << story >> \o SubSeq(sorted, k, Len(sorted))

RECURSIVE SortedByRating(_, _, _)
SortedByRating(stories_list, sorted, k) ==
    IF k > Len(stories_list) THEN sorted
    ELSE SortedByRating(stories_list, InsertByRating(sorted, stories_list[k], 1), k + 1)

\* sorted_stories[:top_k]
Slice(seq, top_k) ==
    IF top_k >= 0
    THEN SubSeq(seq, 1, IF top_k < Len(seq) THEN top_k ELSE Len(seq))
    ELSE SubSeq(seq, 1, IF Len(seq) + top_k > 0 THEN Len(seq) + top_k ELSE 0)

\* Variant of select_top_stories: the list is cut without being sorted
select_top_stories_unsorted(stories_list, top_k) ==
    Slice(stories_list, top_k)

\* NextBatchGenerator.select_top_stories
select_top_stories(stories_list, top_k) ==
    Slice(SortedByRating(stories_list, << >>, 1), top_k)

\* story_ids of a list of stories
RECURSIVE IdsOf(_)
IdsOf(stories_list) ==
    IF stories_list = << >> THEN {}
    ELSE {Head(stories_list).story_id} \cup IdsOf(Tail(stories_list))

\* BaseStoryGenerator._insert_new_stories_to_db: INSERT INTO stories, one row
\* per story, each with batch_number set
_insert_new_stories_to_db(rows, new_stories, batch_number) ==
    rows \o [k \in 1..Len(new_stories) |->
               [new_stories[k] EXCEPT !.batch_number = batch_number]]

\* InitialStoryGenerator.generate_single_story, the story of a call that
\* succeeds; the counters and previous_batch_rating take the defaults of
\* _insert_new_stories_to_db
generate_single_story(story_id, cfg) ==
    Row(story_id, None, story_id, cfg.glicko_initial_rating, cfg.glicko_initial_rd,
        cfg.glicko_initial_volatility, "initial", None, 0, 0, 0, None)

\* InitialStoryGenerator.generate_batch, `generated` of the num_stories
\* calls having returned a story
initial_generate_batch(rows, cfg, generated) ==
    IF generated = 0
    THEN [error |-> Raised("Exception"), rows |-> rows, stories |-> << >>]
    ELSE CHOOSE r \in
           { [error |-> None,
              rows |-> _insert_new_stories_to_db(rows, new_stories, 0),
              stories |-> new_stories]
             : new_stories \in { [k \in 1..generated |->
                                    generate_single_story(Len(rows) + k, cfg)] } } : TRUE

\* Variant of generate_single_variant: the variant starts from the initial
\* rating instead of its parent's
generate_single_variant_initial_rating(story_id, original_story, cfg) ==
    Row(story_id, None, story_id, cfg.glicko_initial_rating, cfg.glicko_initial_rd,
        cfg.glicko_initial_volatility, "variant", original_story.story_id,
        0, 0, 0, original_story.rating)

\* NextBatchGenerator.generate_single_variant, the variant of a call that
\* succeeds
generate_single_variant(story_id, original_story, cfg) ==
    Row(story_id, None, story_id, original_story.rating, cfg.glicko_initial_rd,
        cfg.glicko_initial_volatility, "variant", original_story.story_id,
        0, 0, 0, original_story.rating)

\* NextBatchGenerator.generate_all_variants_parallel: the variants in task
\* order, succeeded[k] of the variants_per_story calls for top story k
\* having returned a variant
RECURSIVE generate_all_variants_parallel(_, _, _, _, _)
generate_all_variants_parallel(top_stories, succeeded, cfg, next_id, k) ==
    IF k > Len(top_stories) THEN << >>
    ELSE [v \in 1..succeeded[k] |->
            generate_single_variant(next_id + v - 1, top_stories[k], cfg)]
         \o generate_all_variants_parallel(top_stories, succeeded, cfg,
                                           next_id + succeeded[k], k + 1)

\* previous_batch_rating of the story in update_data, None for other stories
RECURSIVE RatingIn(_, _)
RatingIn(top_stories, story_id) ==
    IF top_stories = << >> THEN None
    ELSE IF Head(top_stories).story_id = story_id THEN Head(top_stories).rating
         ELSE RatingIn(Tail(top_stories), story_id)

\* Variant of _promote_stories_to_new_batch: rd and sigma are not reset
_promote_stories_keep_deviation(rows, top_stories, next_batch_number, initial_rd, initial_volatility) ==
    [k \in DOMAIN rows |->
       IF rows[k].story_id \in IdsOf(top_stories)
       THEN [rows[k] EXCEPT !.batch_number = next_batch_number,
                            !.generation_type = "original_top_performer",
                            !.previous_batch_rating = RatingIn(top_stories, rows[k].story_id),
                            !.matches_played = 0, !.wins = 0, !.losses = 0]
       ELSE rows[k]]

\* Variant of _promote_stories_to_new_batch: only matches_played is reset
_promote_stories_keep_wins(rows, top_stories, next_batch_number, initial_rd, initial_volatility) ==
    [k \in DOMAIN rows |->
       IF rows[k].story_id \in IdsOf(top_stories)
       THEN [rows[k] EXCEPT !.batch_number = next_batch_number,
                            !.rd = initial_rd,
                            !.sigma = initial_volatility,
                            !.generation_type = "original_top_performer",
                            !.previous_batch_rating = RatingIn(top_stories, rows[k].story_id),
                            !.matches_played = 0]
       ELSE rows[k]]

\* Variant of _promote_stories_to_new_batch: the promoted stories are copied
\* into the next batch (INSERT) instead of moved (UPDATE)
_promote_stories_by_copy(rows, top_stories, next_batch_number, initial_rd, initial_volatility) ==
    rows \o [k \in 1..Len(top_stories) |->
               [top_stories[k] EXCEPT !.batch_number = next_batch_number,
                                      !.rd = initial_rd,
                                      !.sigma = initial_volatility,
                                      !.generation_type = "original_top_performer",
                                      !.previous_batch_rating = top_stories[k].rating,
                                      !.matches_played = 0, !.wins = 0, !.losses = 0]]

\* NextBatchGenerator._promote_stories_to_new_batch: UPDATE stories SET ...
\* WHERE story_id = ?, once per top story
_promote_stories_to_new_batch(rows, top_stories, next_batch_number, initial_rd, initial_volatility) ==
    [k \in DOMAIN rows |->
       IF rows[k].story_id \in IdsOf(top_stories)
       THEN [rows[k] EXCEPT !.batch_number = next_batch_number,
                            !.rd = initial_rd,
                            !.sigma = initial_volatility,
                            !.generation_type = "original_top_performer",
                            !.previous_batch_rating = RatingIn(top_stories, rows[k].story_id),
                            !.matches_played = 0, !.wins = 0, !.losses = 0]
       ELSE rows[k]]

\* NextBatchGenerator.generate_batch after the variants have been generated:
\* insert the variants, promote the top stories
StoreNextBatch(rows, cfg, top_stories, all_variants, next_batch_number) ==
    CHOOSE r \in
      { IF cfg.include_original_stories
        THEN _promote_stories_to_new_batch(with_variants, top_stories, next_batch_number,
                                           cfg.glicko_initial_rd,
                                           cfg.glicko_initial_volatility)
        ELSE with_variants
        : with_variants \in
            { IF all_variants # << >>
              THEN _insert_new_stories_to_db(rows, all_variants, next_batch_number)
              ELSE rows } } : TRUE

\* NextBatchGenerator.generate_batch with its top stories selected
GenerateFromTop(rows, cfg, latest_batch_number, top_stories, succeeded) ==
    IF top_stories = << >>
    THEN [error |-> Raised("Exception"), rows |-> rows, stories |-> << >>,
          top_stories |-> top_stories, latest_batch_number |-> latest_batch_number]
    ELSE CHOOSE r \in
           { [error |-> None,
              rows |-> StoreNextBatch(rows, cfg, top_stories, all_variants,
                                      latest_batch_number + 1),
              stories |-> top_stories \o all_variants,
              top_stories |-> top_stories,
              latest_batch_number |-> latest_batch_number]
             : all_variants \in
                 { generate_all_variants_parallel(top_stories, succeeded, cfg,
                                                  Len(rows) + 1, 1) } } : TRUE

\* NextBatchGenerator.generate_batch
next_generate_batch(rows, cfg, succeeded) ==
    IF get_latest_batch_number(rows) = -1
    THEN [error |-> Raised("Exception"), rows |-> rows, stories |-> << >>,
          top_stories |-> << >>, latest_batch_number |-> -1]
    ELSE GenerateFromTop(rows, cfg, get_latest_batch_number(rows),
                         select_top_stories(
                             _load_stories_from_batch(rows, get_latest_batch_number(rows)),
                             cfg.top_stories_to_select),
                         succeeded)

\* TournamentRunner(...): __init__(self, config) takes the configuration
\* only; any other argument list raises TypeError
TournamentRunner(args) ==
    IF Len(args) = 1
    THEN [kind |-> "TournamentRunner", config |-> args[1]]
    ELSE Raised("TypeError")

\* EvolutionPipeline.run_tournament: TournamentRunner(self.config, self.conn)
\* raises, `except Exception` returns False; runner.run_tournament(), which
\* needs a runner, is not reached and the store is not touched
pipeline_run_tournament(cfg, rows) ==
    ~IsException(TournamentRunner(<< cfg, rows >>))

\* EvolutionPipeline.run_initial_generation / run_next_generation: True
\* unless generate_batch raised
StepSucceeded(result) == result.error = None

\* run_pipeline after run_initial_generation, and after the initial
\* run_tournament: `return False` on failure
AfterSetupStep(ok, next_pc) ==
    IF ok THEN [pc |-> next_pc, ret |-> None]
    ELSE [pc |-> "returned", ret |-> FALSE]

\* Variant of AfterNextGeneration: the `break` is missing
AfterNextGenerationNoBreak(ok) == [pc |-> "tournament", success |-> ok]

\* run_pipeline after run_next_generation: success = False; break
AfterNextGeneration(ok) ==
    IF ok THEN [pc |-> "tournament", success |-> TRUE]
    ELSE [pc |-> "final", success |-> FALSE]

\* run_pipeline after the run_tournament of a cycle
AfterTournament(ok) ==
    IF ok THEN [pc |-> "loop", success |-> TRUE]
    ELSE [pc |-> "final", success |-> FALSE]

\* Variant of ExportWanted: the final export is not guarded
ExportAlways(ok) == TRUE

\* run_pipeline: `if success:` before export_top_stories
ExportWanted(ok) == ok

\* Variant of main: the result of run_pipeline is ignored
main_ignores_result(ok) == 0

\* evolve.main: 0 if run_pipeline returned True, 1 otherwise
main(ok) == IF ok THEN 0 ELSE 1

\* story_ids of a list of stories, in order
StoryIdSeq(stories_list) == [k \in 1..Len(stories_list) |-> stories_list[k].story_id]

\* EvolutionPipeline.export_top_stories: the story written to
\* rank_<n>_story.txt, n = 1, 2, ...  (ORDER BY rating DESC LIMIT top_n)
export_top_stories(rows, top_n) ==
    IF get_latest_batch_number(rows) = -1 THEN << >>
    ELSE StoryIdSeq(Slice(SortedByRating(
             RowsOfBatch(rows, get_latest_batch_number(rows), 1), << >>, 1), top_n))

\* An executed step of the current run: its result and what it worked on
Step(name, ok, at_cycle, batch_number, population, top_story_ids, was_judged) ==
    [step |-> name, ok |-> ok, cycle |-> at_cycle, batch_number |-> batch_number,
     population |-> population, top_story_ids |-> top_story_ids,
     judged |-> was_judged]

\* Number of stories of the latest batch
LatestPopulation(rows) ==
    Len(RowsOfBatch(rows, get_latest_batch_number(rows), 1))

InitPipeline ==
    /\ NoTournament
    /\ \E db \in Databases :
          /\ conn = db.rows
          /\ judged = db.judged
          /\ inserted = IdsOf(db.rows)
    /\ config \in Configs
    /\ max_iterations = 0
    /\ start_batch_number = -1
    /\ pipeline_pc = "idle"
    /\ cycle = 0
    /\ success = TRUE
    /\ iterations_completed = 0
    /\ pipeline_ret = None
    /\ exit_code = None
    /\ exported = << >>
    /\ steps = << >>
    /\ runs = 0

\* evolve.main creates the pipeline and calls run_pipeline(n), which runs up
\* to its first step: get_latest_batch_number decides whether the initial
\* setup is needed
StartRun(n) ==
    /\ pipeline_pc \in {"idle", "returned"}
    /\ runs < MaxRuns
    /\ runs' = runs + 1
    /\ max_iterations' = n
    /\ start_batch_number' = get_latest_batch_number(conn)
    /\ pipeline_pc' = IF get_latest_batch_number(conn) = -1
                      THEN "initial_generation" ELSE "loop"
    /\ cycle' = 1
    /\ success' = TRUE
    /\ iterations_completed' = 0
    /\ pipeline_ret' = None
    /\ exit_code' = None
    /\ steps' = << >>
    /\ UNCHANGED <<conn, config, exported, judged, inserted>>
    /\ UNCHANGED tournament_vars

\* Setup step 1: run_initial_generation
RunInitialGeneration(generated) ==
    /\ pipeline_pc = "initial_generation"
    /\ \E result \in {initial_generate_batch(conn, config, generated)} :
          /\ conn' = result.rows
          /\ inserted' = inserted \cup IdsOf(result.stories)
          /\ steps' = Append(steps, Step("initial_generation", StepSucceeded(result), 0,
                                         -1, 0, << >>, FALSE))
          /\ pipeline_pc' = AfterSetupStep(StepSucceeded(result), "initial_tournament").pc
          /\ pipeline_ret' = AfterSetupStep(StepSucceeded(result), "initial_tournament").ret
          /\ exit_code' = IF StepSucceeded(result) THEN exit_code ELSE main(FALSE)
    /\ UNCHANGED <<config, max_iterations, start_batch_number, cycle, success,
                   iterations_completed, exported, judged, runs>>
    /\ UNCHANGED tournament_vars

\* Setup step 2: run_tournament on the initial batch
RunInitialTournament ==
    /\ pipeline_pc = "initial_tournament"
    /\ \E ok \in {pipeline_run_tournament(config, conn)} :
          /\ steps' = Append(steps, Step("tournament", ok, 0,
                                         get_latest_batch_number(conn),
                                         LatestPopulation(conn), << >>, FALSE))
          /\ judged' = IF ok THEN judged \cup {get_latest_batch_number(conn)} ELSE judged
          /\ pipeline_pc' = AfterSetupStep(ok, "loop").pc
          /\ pipeline_ret' = AfterSetupStep(ok, "loop").ret
          /\ exit_code' = IF ok THEN exit_code ELSE main(FALSE)
    /\ UNCHANGED <<conn, config, max_iterations, start_batch_number, cycle, success,
                   iterations_completed, exported, inserted, runs>>
    /\ UNCHANGED tournament_vars

\* Variant of CycleInRange: range(1, max_iterations + 2)
CycleInLongerRange(at_cycle, n) == at_cycle <= n + 1

\* run_pipeline: `for i in range(1, max_iterations + 1)` has a next value
CycleInRange(at_cycle, n) == at_cycle <= n

\* A cycle of the evolution loop, first half: run_next_generation
RunNextGeneration(succeeded) ==
    /\ pipeline_pc = "loop"
    /\ CycleInRange(cycle, max_iterations)
    /\ \E result \in {next_generate_batch(conn, config, succeeded)} :
          /\ conn' = result.rows
          /\ inserted' = inserted \cup IdsOf(result.stories)
          /\ steps' = Append(steps, Step("next_generation", StepSucceeded(result), cycle,
                                         result.latest_batch_number,
                                         LatestPopulation(conn),
                                         StoryIdSeq(result.top_stories),
                                         result.latest_batch_number \in judged))
          /\ pipeline_pc' = AfterNextGeneration(StepSucceeded(result)).pc
          /\ success' = AfterNextGeneration(StepSucceeded(result)).success
    /\ UNCHANGED <<config, max_iterations, start_batch_number, cycle,
                   iterations_completed, pipeline_ret, exit_code, exported, judged, runs>>
    /\ UNCHANGED tournament_vars

\* A cycle of the evolution loop, second half: run_tournament and the
\* bookkeeping of the completed cycle
RunTournament ==
    /\ pipeline_pc = "tournament"
    /\ \E ok \in {pipeline_run_tournament(config, conn)} :
          /\ steps' = Append(steps, Step("tournament", ok, cycle,
                                         get_latest_batch_number(conn),
                                         LatestPopulation(conn), << >>, FALSE))
          /\ judged' = IF ok THEN judged \cup {get_latest_batch_number(conn)} ELSE judged
          /\ pipeline_pc' = AfterTournament(ok).pc
          /\ success' = AfterTournament(ok).success
          /\ iterations_completed' = IF ok THEN cycle ELSE iterations_completed
          /\ cycle' = IF ok THEN cycle + 1 ELSE cycle
    /\ UNCHANGED <<conn, config, max_iterations, start_batch_number, pipeline_ret,
                   exit_code, exported, inserted, runs>>
    /\ UNCHANGED tournament_vars

\* range(1, max_iterations + 1) is exhausted
LoopExhausted ==
    /\ pipeline_pc = "loop"
    /\ ~CycleInRange(cycle, max_iterations)
    /\ pipeline_pc' = "final"
    /\ UNCHANGED <<conn, config, max_iterations, start_batch_number, cycle, success,
                   iterations_completed, pipeline_ret, exit_code, exported, steps,
                   judged, inserted, runs>>
    /\ UNCHANGED tournament_vars

\* The final export, the return of run_pipeline and of evolve.main
FinishPipeline ==
    /\ pipeline_pc = "final"
    /\ IF ExportWanted(success)
       THEN /\ exported' = export_top_stories(conn, TOP_N)
            /\ steps' = Append(steps, Step("export", TRUE, cycle,
                                           get_latest_batch_number(conn),
                                           LatestPopulation(conn), << >>, FALSE))
       ELSE UNCHANGED <<exported, steps>>
    /\ pipeline_ret' = success
    /\ exit_code' = main(success)
    /\ pipeline_pc' = "returned"
    /\ UNCHANGED <<conn, config, max_iterations, start_batch_number, cycle, success,
                   iterations_completed, judged, inserted, runs>>
    /\ UNCHANGED tournament_vars

\* Number of top stories the next generation step selects
Selected(rows, cfg) ==
    IF rows = << >> THEN 0
    ELSE Len(select_top_stories(RowsOfBatch(rows, get_latest_batch_number(rows), 1),
                                cfg.top_stories_to_select))

NextPipeline ==
    \/ \E n \in 0..MaxIterations : StartRun(n)
    \/ \E generated \in 0..config.num_stories : RunInitialGeneration(generated)
    \/ RunInitialTournament
    \/ \E succeeded \in [1..Selected(conn, config) -> 0..config.variants_per_story] :
          RunNextGeneration(succeeded)
    \/ RunTournament
    \/ LoopExhausted
    \/ FinishPipeline

SpecPipeline == InitPipeline /\ [][NextPipeline]_vars

\* The positions of run_pipeline: before the call, at each of its awaited
\* steps, at the head of the loop, at the final export, after the return
PipelinePositions ==
    {"idle", "initial_generation", "initial_tournament", "loop", "tournament",
     "final", "returned"}

\* run_pipeline, once called, moves on to its next position: every step of
\* a run changes pipeline_pc, and a run is at a step until it has returned
Advance ==
    /\ pipeline_pc \notin {"idle", "returned"}
    /\ \E position \in PipelinePositions \ {pipeline_pc} : pipeline_pc' = position

\* The pipeline with every awaited step returning: asyncio.run drives
\* run_pipeline from each await to the next until it returns
SpecPipelineReturns == SpecPipeline /\ WF_pipeline_pc(Advance)

\* ------------------------------------------------------------------------
\* Result files of the Glicko ranker (glicko_rank.py)
\* ------------------------------------------------------------------------

\* round(x, ndigits) for a non-negative x carried in units of 1/scale
RoundDigits(x, scale, ndigits) ==
    (((x * 10^ndigits + (scale \div 2)) \div scale) * scale) \div 10^ndigits

\* win_rate of get_leaderboard, round(wins / matches_played, 3), in
\* thousandths
win_rate(story) ==
    IF story.matches_played > 0
    THEN (story.wins * 1000 + (story.matches_played \div 2)) \div story.matches_played
    ELSE 0

\* One dictionary of the leaderboard, without its rank
LeaderboardEntry(st, sid) ==
    [story_id |-> sid,
     rating |-> RoundDigits(st[sid].rating, PUB, 1),
     rd |-> RoundDigits(st[sid].rd, PUB, 1),
     sigma |-> RoundDigits(st[sid].sigma, ONE, 4),
     matches_played |-> st[sid].matches_played,
     wins |-> st[sid].wins,
     losses |-> st[sid].losses,
     win_rate |-> win_rate(st[sid])]

\* GlickoRankingSystem.get_leaderboard: the stories by rating, best first
get_leaderboard(st) ==
    SortedByRating([sid \in DOMAIN st |-> LeaderboardEntry(st, sid)], << >>, 1)

\* GlickoRankingSystem.save_results: the JSON object written to results_file
save_results(st, history) ==
    [total_matches |-> Len(history), leaderboard |-> get_leaderboard(st)]

\* Story(...) of load_stories_from_json for one dictionary of the file
StoryFromJson(story_data) ==
    [story_id |-> story_data.story_id,
     story |-> Story(story_data.rating, story_data.rd, story_data.sigma,
                     story_data.matches_played, story_data.wins, story_data.losses)]

\* load_stories_from_json: the Story objects of data.get("stories", [])
load_stories_from_json(data) ==
    IF "stories" \in DOMAIN data
    THEN [k \in DOMAIN data.stories |-> StoryFromJson(data.stories[k])]
    ELSE << >>

\* ------------------------------------------------------------------------
\* Rating periods on live Story objects (GlickoRankingSystem
\* ._process_rating_period called by a holder of the objects)
\*
\* The holder of a list of Story objects may process any number of rating
\* periods on it and, Story being a plain dataclass, assign to the public
\* fields of an object between two periods.  Of the tournament variables
\* this uses stories, initial_stories (the objects as the latest period
\* found them), all_match_results (the results of the latest period),
\* pre_update_ratings, match_history and rating_periods.
\* ------------------------------------------------------------------------

\* Rating periods processed on one list of objects
MaxPeriods == 2

\* Results handed to one rating period
MaxResults == 1

\* The MatchResult objects that can be built on n stories
MatchResults(n) ==
    { MatchResult(story1, story2, winner, IF winner = story1 THEN story2 ELSE story1)
      : <<story1, story2, winner>> \in
          { t \in (1..n) \X (1..n) \X (1..n) : t[1] # t[2] /\ t[3] \in {t[1], t[2]} } }

\* The `results` argument of _process_rating_period
PeriodResults(n) ==
    UNION { [1..len -> MatchResults(n)] : len \in 0..MaxResults }

\* story.rating = rating; story.rd = rd on a constructed object: the
\* dataclass stores the values, _mu and _phi stay as __post_init__ left them
AssignedStory(story, rating, rd) == [story EXCEPT !.rating = rating, !.rd = rd]

\* The lists of Story objects a holder starts from: two stories each
PeriodPopulations ==
    { << Story(DEFAULT_RATING * PUB, DEFAULT_RD * PUB, DEFAULT_SIGMA, 0, 0, 0),
         Story(DEFAULT_RATING * PUB, DEFAULT_RD * PUB, DEFAULT_SIGMA, 0, 0, 0) >>,
      << Story(DEFAULT_RATING * PUB, 100 * PUB, DEFAULT_SIGMA, 0, 0, 0),
         Story(DEFAULT_RATING * PUB, 100 * PUB, DEFAULT_SIGMA, 0, 0, 0) >>,
      << Story(1600 * PUB, 50 * PUB, DEFAULT_SIGMA, 2, 2, 0),
         Story(1400 * PUB, 200 * PUB, DEFAULT_SIGMA, 3, 1, 2) >> }

InitPeriod ==
    /\ stories \in PeriodPopulations
    /\ num_rounds = 0
    /\ max_concurrent_matches = 0
    /\ pc = "start"
    /\ match_pairs = << >>
    /\ concurrency = 0
    /\ i = 0
    /\ tasks = << >>
    /\ all_match_results = << >>
    /\ match_history = << >>
    /\ pre_update_ratings = << >>
    /\ judge_log = << >>
    /\ ret = None
    /\ raised = FALSE
    /\ rating_periods = 0
    /\ initial_stories = stories
    /\ NoPipeline

\* The holder assigns a rating and a deviation to an object before the next
\* period
AssignPublic(sid, rating, rd) ==
    /\ rating_periods < MaxPeriods
    /\ <<rating, rd>> # <<stories[sid].rating, stories[sid].rd>>
    /\ stories' = [stories EXCEPT ![sid] = AssignedStory(stories[sid], rating, rd)]
    /\ UNCHANGED <<num_rounds, max_concurrent_matches, pc, match_pairs, concurrency, i,
                   tasks, all_match_results, match_history, pre_update_ratings,
                   judge_log, ret, raised, rating_periods, initial_stories>>
    /\ UNCHANGED pipeline_vars

\* One call of _process_rating_period(stories, results)
RatingPeriod(results) ==
    /\ rating_periods < MaxPeriods
    /\ \E period \in {_process_rating_period(stories, results, match_history)} :
          /\ stories' = period.stories
          /\ pre_update_ratings' = period.pre_update_ratings
          /\ match_history' = period.match_history
    /\ initial_stories' = stories
    /\ all_match_results' = results
    /\ rating_periods' = rating_periods + 1
    /\ UNCHANGED <<num_rounds, max_concurrent_matches, pc, match_pairs, concurrency, i,
                   tasks, judge_log, ret, raised>>
    /\ UNCHANGED pipeline_vars

NextPeriod ==
    \/ \E sid \in DOMAIN stories :
          AssignPublic(sid, stories[sid].rating, DEFAULT_RD * PUB)
    \/ \E results \in PeriodResults(Len(stories)) : RatingPeriod(results)

SpecPeriod == InitPeriod /\ [][NextPeriod]_vars

\* ------------------------------------------------------------------------
\* Observations used by the properties
\* ------------------------------------------------------------------------

\* The judge call of pairing k has returned or failed
Resolved(k) == judge_log[k].outcome \in {"answered", "failed"}

\* Number of pairings whose batch has been gathered and recorded
Collected == IF i < Len(match_pairs) THEN i ELSE Len(match_pairs)

\* The positions k <= n of match_pairs whose judge call was answered, in order
RECURSIVE AnsweredPairs(_)
AnsweredPairs(n) ==
    IF n = 0 THEN << >>
    ELSE IF judge_log[n].outcome = "answered"
         THEN Append(AnsweredPairs(n - 1), n)
         ELSE AnsweredPairs(n - 1)

\* Number of answered, recorded pairings story sid takes part in
RECURSIVE AnsweredWith(_, _)
AnsweredWith(sid, n) ==
    IF n = 0 THEN 0
    ELSE AnsweredWith(sid, n - 1)
         + (IF judge_log[n].outcome = "answered"
               /\ (match_pairs[n][1] = sid \/ match_pairs[n][2] = sid)
            THEN 1 ELSE 0)

\* Number of results in which story sid is the winner / the loser
RECURSIVE WinsIn(_, _)
WinsIn(results, sid) ==
    IF Len(results) = 0 THEN 0
    ELSE (IF results[1].winner = sid THEN 1 ELSE 0) + WinsIn(Tail(results), sid)

RECURSIVE LossesIn(_, _)
LossesIn(results, sid) ==
    IF Len(results) = 0 THEN 0
    ELSE (IF results[1].loser = sid THEN 1 ELSE 0) + LossesIn(Tail(results), sid)

\* rating, rd and sigma of every story
Ratings(st) == [k \in DOMAIN st |-> <<st[k].rating, st[k].rd, st[k].sigma>>]

\* The Story objects as they stood when _process_rating_period was entered,
\* rebuilt from pre_update_ratings
Snapshot ==
    [k \in DOMAIN pre_update_ratings |->
        Story(pre_update_ratings[k].rating, pre_update_ratings[k].rd,
              pre_update_ratings[k].sigma, pre_update_ratings[k].matches_played,
              pre_update_ratings[k].wins, pre_update_ratings[k].losses)]

\* run_tournament has returned
Returned == pc = "done" /\ ~raised

\* ------------------------------------------------------------------------
\* Properties
\* ------------------------------------------------------------------------

\* C1: during run_tournament no story's rating, rd or sigma changes while a
\* match is pending or a batch is still to be issued; the rating update is
\* applied exactly once, after the last batch has resolved.
C1_RatingsMoveOnceAfterLastBatch ==
    /\ [][ Ratings(stories') # Ratings(stories)
            => /\ \A k \in DOMAIN judge_log : Resolved(k)
               /\ ~(i < Len(match_pairs))
               /\ tasks = << >>
               /\ rating_periods = 0
               /\ rating_periods' = 1 ]_vars
    /\ [](rating_periods <= 1)
    /\ [](rating_periods = 1 <=> pc = "done")
    /\ [](rating_periods = 0 => Ratings(stories) = Ratings(initial_stories))

\* C1 witness: two batches of one match each were awaited, then the one
\* rating update moved the ratings
C1_Witness ==
    /\ pc = "done"
    /\ rating_periods = 1
    /\ concurrency = 1
    /\ Len(all_match_results) = 2
    /\ Ratings(stories) # Ratings(initial_stories)

\* C2: every story's new rating, rd and sigma are those _update_player
\* computes from the period-start objects of the story and of its opponents.
C2_SnapshotIsolation ==
    Returned =>
        \A k \in DOMAIN stories :
            Ratings(stories)[k]
              = Ratings(<<_update_player(Snapshot, k,
                                         Opponents(all_match_results, k),
                                         Outcomes(all_match_results, k))>>)[1]

\* C2 witness: a period in which a story beat an opponent that precedes it
\* in the stories list, and so was updated after that opponent
C2_Witness ==
    /\ Returned
    /\ \E r \in DOMAIN all_match_results :
          /\ all_match_results[r].winner > all_match_results[r].loser
          /\ stories[all_match_results[r].winner].rating
               > pre_update_ratings[all_match_results[r].winner].rating
          /\ stories[all_match_results[r].loser].rating
               < pre_update_ratings[all_match_results[r].loser].rating

\* The orderings of the list `results`: the lists over its positions that
\* use each position once, read through the list
OrderingsOf(results) ==
    { [k \in DOMAIN results |-> results[p[k]]] : p \in Shuffles(Len(results)) }

C4_FailedMatchIsDropped ==
    /\ \A k \in DOMAIN judge_log :
          /\ judge_log[k].calls <= 1
          /\ judge_log[k].outcome = "failed" => judge_log[k].calls = 1
    /\ \A j \in DOMAIN tasks :
          tasks[j].winner_label = "error" => ~IsMatchResult(tasks[j].result)
    /\ ~raised =>
          /\ Len(all_match_results) = Len(AnsweredPairs(Collected))
          /\ \A n \in DOMAIN all_match_results :
                /\ all_match_results[n].story1 = match_pairs[AnsweredPairs(Collected)[n]][1]
                /\ all_match_results[n].story2 = match_pairs[AnsweredPairs(Collected)[n]][2]
          /\ \A sid \in DOMAIN stories :
                /\ stories[sid].matches_played
                     = initial_stories[sid].matches_played + AnsweredWith(sid, Collected)
                /\ stories[sid].wins
                     = initial_stories[sid].wins + WinsIn(all_match_results, sid)
                /\ stories[sid].losses
                     = initial_stories[sid].losses + LossesIn(all_match_results, sid)
                /\ stories[sid].wins + stories[sid].losses
                     = initial_stories[sid].wins + initial_stories[sid].losses
                       + AnsweredWith(sid, Collected)
                /\ Len(Opponents(all_match_results, sid)) = AnsweredWith(sid, Collected)
    /\ Returned =>
          /\ \A k \in DOMAIN judge_log : Resolved(k)
          /\ Len(match_history) = Len(AnsweredPairs(Len(match_pairs)))
          /\ \A sid \in DOMAIN stories :
                AnsweredWith(sid, Len(match_pairs)) = 0
                  => stories[sid] = _update_player_no_matches(Snapshot[sid])

\* C4 witness: the first match failed, the second was still played, and the
\* tournament returned
C4_Witness ==
    /\ Returned
    /\ Len(match_pairs) = 2
    /\ judge_log[1].outcome = "failed"
    /\ judge_log[2].outcome = "answered"
    /\ Len(all_match_results) = 1

\* C5: whatever matches fail, run_tournament raises nothing, applies the
\* rating update once with the successful matches only, and returns their
\* number.
C5_JudgeFailuresNotFatal ==
    /\ ~raised
    /\ pc = "done" =>
          /\ rating_periods = 1
          /\ ret = [kind |-> "int", value |-> Len(AnsweredPairs(Len(match_pairs)))]
          /\ Len(all_match_results) = Len(AnsweredPairs(Len(match_pairs)))
          /\ stories = _process_rating_period(Snapshot, all_match_results, << >>).stories
    /\ pc = "loop" /\ ~(i < Len(match_pairs)) => rating_periods = 0

\* C5 witness: every match of the tournament failed and it returned 0
C5_Witness ==
    /\ Returned
    /\ Len(match_pairs) = 2
    /\ \A k \in DOMAIN judge_log : judge_log[k].outcome = "failed"
    /\ ret = [kind |-> "int", value |-> 0]

\* The pairings whose judge call is in flight
InFlight == { k \in DOMAIN judge_log : judge_log[k].outcome = "pending" }

\* The batch a pairing belongs to under limit c
BatchOf(k, c) == (k - 1) \div c

\* The 300 s batch timeout of the Elo tournament has struck
TimedOut == \E k \in DOMAIN judge_log : judge_log[k].outcome = "cancelled"

\* C6: when a whole batch exceeds the per-batch timeout, no further batch is
\* issued and the tournament call completes with the outcomes collected so
\* far (EloRankingSystem.run_tournament, the scheduler with a batch timeout).
C6_BatchTimeoutEndsTournament ==
    /\ \A k \in DOMAIN judge_log : judge_log[k].calls <= 1
    /\ TimedOut =>
          /\ pc = "done"
          /\ ~raised
          /\ tasks = << >>
          /\ InFlight = {}
          /\ ret = [kind |-> "list", value |-> all_match_results]
          /\ \A k \in DOMAIN judge_log :
                /\ k > i + concurrency => judge_log[k].calls = 0
                /\ k <= i => Resolved(k)
                /\ judge_log[k].outcome = "cancelled" => k > i /\ k <= i + concurrency
          /\ Len(all_match_results) = Len(AnsweredPairs(i))
          /\ \A n \in DOMAIN all_match_results :
                /\ all_match_results[n].story1_id = match_pairs[AnsweredPairs(i)[n]][1]
                /\ all_match_results[n].story2_id = match_pairs[AnsweredPairs(i)[n]][2]

\* C6 witness: the first batch timed out and the second pairing was never
\* submitted
C6_Witness ==
    /\ TimedOut
    /\ pc = "done"
    /\ Len(match_pairs) = 2
    /\ judge_log[1].outcome = "cancelled"
    /\ judge_log[2].calls = 0

C8_MatchPairs ==
    pc # "start" =>
        /\ Len(match_pairs)
             = IF Len(stories) >= 2 THEN num_rounds * (Len(stories) \div 2) ELSE 0
        /\ \A k \in DOMAIN match_pairs :
              /\ match_pairs[k][1] \in StoryIds
              /\ match_pairs[k][2] \in StoryIds
              /\ match_pairs[k][1] # match_pairs[k][2]
        /\ \A k, l \in DOMAIN match_pairs :
              /\ k # l
              /\ BatchOf(k, Len(stories) \div 2) = BatchOf(l, Len(stories) \div 2)
              => {match_pairs[k][1], match_pairs[k][2]}
                   \cap {match_pairs[l][1], match_pairs[l][2]} = {}
        /\ \A k \in DOMAIN match_pairs :
              Len(stories) % 2 = 1 =>
                  Cardinality(
                      StoryIds \ UNION { {match_pairs[l][1], match_pairs[l][2]} :
                                         l \in { m \in DOMAIN match_pairs :
                                                   BatchOf(m, Len(stories) \div 2)
                                                     = BatchOf(k, Len(stories) \div 2) } })
                    = 1
        /\ pc = "loop" /\ i = 0 =>
              \A p \in Shuffles(5) :
                  /\ 3 * Len(PairUp(p)) = 6
                  /\ Cardinality({PairUp(p)[1][1], PairUp(p)[1][2],
                                  PairUp(p)[2][1], PairUp(p)[2][2]}) = 4

\* C8 witness: three stories, two rounds, two pairings
C8_Witness ==
    /\ pc # "start"
    /\ Len(stories) = 3
    /\ num_rounds = 2
    /\ Len(match_pairs) = 2

\* C9: for both outcomes of the swap and both judge labels conduct_match
\* records as winner the story shown in the position the judge named and as
\* loser the other story of the pairing (Glicko tasks; the Elo mapping for
\* every pairing, swap and label).
C9_SwapKeepsWinner ==
    /\ \A j \in DOMAIN tasks :
          IsMatchResult(tasks[j].result) =>
              /\ tasks[j].result.winner
                   = (IF tasks[j].winner_label = "model_1"
                      THEN tasks[j].model_1_response ELSE tasks[j].model_2_response)
              /\ tasks[j].result.loser
                   = (IF tasks[j].winner_label = "model_1"
                      THEN tasks[j].model_2_response ELSE tasks[j].model_1_response)
              /\ tasks[j].result.winner # tasks[j].result.loser
              /\ {tasks[j].result.winner, tasks[j].result.loser}
                   = {tasks[j].story1, tasks[j].story2}
              /\ {tasks[j].model_1_response, tasks[j].model_2_response}
                   = {tasks[j].story1, tasks[j].story2}
    /\ \A story1, story2 \in StoryIds, is_swapped \in BOOLEAN,
          label \in {"model_1", "model_2"} :
          story1 # story2 =>
              /\ elo_winner_story(story1, story2, is_swapped, label)
                   = (IF label = "model_1"
                      THEN first_story(story1, story2, is_swapped)
                      ELSE second_story(story1, story2, is_swapped))
              /\ elo_loser_story(story1, story2, is_swapped, label)
                   = (IF label = "model_1"
                      THEN second_story(story1, story2, is_swapped)
                      ELSE first_story(story1, story2, is_swapped))
              /\ elo_winner_story(story1, story2, is_swapped, label)
                   # elo_loser_story(story1, story2, is_swapped, label)

\* C9 witness: a swapped match in which the judge named model_1, so that
\* story2 is recorded as the winner
C9_Witness ==
    \E j \in DOMAIN tasks :
        /\ tasks[j].is_swapped
        /\ tasks[j].winner_label = "model_1"
        /\ IsMatchResult(tasks[j].result)
        /\ tasks[j].result.winner = tasks[j].story2
        /\ tasks[j].result.loser = tasks[j].story1

\* Story sid played no match in the period
Idle(sid) == Len(Opponents(all_match_results, sid)) = 0

\* The frame of an idle story: rating, sigma and the counters are unchanged
IdleFrame(sid) ==
    /\ stories[sid].rating = initial_stories[sid].rating
    /\ stories[sid].sigma = initial_stories[sid].sigma
    /\ stories[sid].wins = initial_stories[sid].wins
    /\ stories[sid].losses = initial_stories[sid].losses
    /\ stories[sid].matches_played = initial_stories[sid].matches_played

\* C10 as stated: an idle story keeps rating, sigma and counters, and
\* RD' = sqrt(RD^2 + volatility^2) with RD in rating points.
C10_IdleDeviationPublicScale ==
    Returned =>
        \A sid \in DOMAIN stories :
            Idle(sid) =>
                /\ IdleFrame(sid)
                /\ stories[sid].rd
                     = PublicRootSum(initial_stories[sid].rd, initial_stories[sid].sigma)

\* C10, amended: an idle story keeps rating, sigma and counters, and
\* RD' = 173.7178 * sqrt((RD / 173.7178)^2 + volatility^2): the volatility is
\* added on the internal scale.  RD never shrinks; RD 50 becomes 51.1.
C10_IdleDeviationInternalScale ==
    Returned =>
        \A sid \in DOMAIN stories :
            Idle(sid) =>
                /\ IdleFrame(sid)
                /\ stories[sid].rd
                     = ToPublic(FSqrt(FMul(ToInternal(initial_stories[sid].rd),
                                           ToInternal(initial_stories[sid].rd))
                                      + FMul(initial_stories[sid].sigma,
                                             initial_stories[sid].sigma)))
                /\ stories[sid].rd >= initial_stories[sid].rd
                /\ initial_stories[sid].rd = 50 * PUB => stories[sid].rd = 511

\* C10 witness: the story with RD 50 sat out a period in which the others
\* played
C10_Witness ==
    /\ Returned
    /\ Len(all_match_results) >= 1
    /\ \E sid \in DOMAIN stories :
          /\ Idle(sid)
          /\ initial_stories[sid].rd = 50 * PUB
          /\ stories[sid].rd > initial_stories[sid].rd

\* ------------------------------------------------------------------------
\* Drift correction (TournamentRunner.run_tournament, checked on the
\* tournament it runs: SpecElo)
\* ------------------------------------------------------------------------

\* The runner's tournament has returned and the stories file is written
RunnerPersisted == pc = "done" /\ ret # None

\* Sum over the promoted entities of rating after the period minus
\* previous_period_rating, the latter being the rating the entity entered
\* the tournament with (promotion leaves the rating as it is)
RECURSIVE DriftSum(_, _, _)
DriftSum(promoted, after, before) ==
    IF promoted = {} THEN 0
    ELSE LET p == CHOOSE x \in promoted : TRUE
         IN (after[p].elo - before[p].elo) + DriftSum(promoted \ {p}, after, before)

\* C11: once a generation's tournament is over, the mean of rating_after -
\* previous_period_rating over the promoted entities is subtracted from the
\* rating of every entity of the generation before the ratings are
\* persisted -- whichever entities of the generation are the promoted ones
\* (the mean is taken to the nearest unit of the model).
C11_DriftSubtractedFromAll ==
    RunnerPersisted =>
        \A promoted \in (SUBSET DOMAIN stories) \ {{}} :
            \A k \in DOMAIN stories :
                Abs(Cardinality(promoted)
                      * (stories[k].elo - updated_stories_data(stories)[k].elo)
                    - DriftSum(promoted, stories, initial_stories))
                  < Cardinality(promoted)

\* A tournament with a match played has been persisted
C11_Witness ==
    /\ RunnerPersisted
    /\ Len(all_match_results) > 0
    /\ \E k \in DOMAIN stories : stories[k].elo # initial_stories[k].elo

\* C12: after a generation with promoted entities has been judged and its
\* ratings persisted, the mean of rating - previous_period_rating over the
\* promoted entities is 0 (to within a unit of the model).
C12_MeanPromotedDriftIsZero ==
    RunnerPersisted =>
        \A promoted \in (SUBSET DOMAIN stories) \ {{}} :
            Abs(DriftSum(promoted, updated_stories_data(stories), initial_stories))
              < Cardinality(promoted)

\* A promoted entity has won a match and its rating has been persisted
C12_Witness ==
    /\ RunnerPersisted
    /\ \E k \in DOMAIN stories :
          updated_stories_data(stories)[k].elo > initial_stories[k].elo

\* ------------------------------------------------------------------------
\* Pipeline control (SpecPipeline)
\* ------------------------------------------------------------------------

\* The steps of n evolution cycles
Cycles(n) ==
    [k \in 1..(2 * n) |-> IF k % 2 = 1 THEN "next_generation" ELSE "tournament"]

\* The steps of a complete run over n cycles, on an empty store (fresh) or
\* on a store that holds a batch
ExpectedSteps(fresh, n) ==
    (IF fresh THEN << "initial_generation", "tournament" >> ELSE << >>)
      \o Cycles(n) \o << "export" >>

\* A step of the current run has reported failure
StepFailed == \E p \in DOMAIN steps : ~steps[p].ok

C14_FailureHalts ==
    /\ \A p \in DOMAIN steps : ~steps[p].ok => p = Len(steps)
    /\ StepFailed /\ pipeline_pc = "returned" => pipeline_ret = FALSE /\ exit_code = 1

\* A run has returned after a failed step
C14_Witness ==
    /\ pipeline_pc = "returned"
    /\ StepFailed
    /\ pipeline_ret = FALSE
    /\ exit_code = 1

\* C15: every next-generation step selects its parents from a generation
\* whose tournament has completed.
C15_ParentsFromJudgedGeneration ==
    \A p \in DOMAIN steps :
        steps[p].step = "next_generation" /\ steps[p].top_story_ids # << >>
          => steps[p].judged

\* A second run has selected parents after the first run's tournament failed
C15_Witness ==
    /\ runs = 2
    /\ \E p \in DOMAIN steps :
          /\ steps[p].step = "next_generation"
          /\ steps[p].top_story_ids # << >>
          /\ steps[p].batch_number \notin judged

\* C16: a tournament step on a generation of fewer than 2 entities reports
\* success, and the run goes on.
C16_SmallPopulationNotFatal ==
    \A p \in DOMAIN steps :
        steps[p].step = "tournament" /\ steps[p].population < 2
          => steps[p].ok /\ (pipeline_pc = "returned" => pipeline_ret)

\* A tournament step has run on a generation of one story
C16_Witness ==
    \E p \in DOMAIN steps :
        steps[p].step = "tournament" /\ steps[p].population = 1

\* ------------------------------------------------------------------------
\* Population continuity (SpecPipeline)
\* ------------------------------------------------------------------------

\* A next-generation step has just succeeded
NextGenerationDone ==
    /\ steps # << >>
    /\ steps[Len(steps)].step = "next_generation"
    /\ steps[Len(steps)].ok

\* The step taken is a next-generation step that succeeds
NextGenerationSucceeds ==
    /\ pipeline_pc = "loop"
    /\ pipeline_pc' = "tournament"

\* story_id is among the top stories the step selected
SelectedBy(step, story_id) ==
    \E q \in DOMAIN step.top_story_ids : step.top_story_ids[q] = story_id

\* Row `after` is row `before` carried from generation batch_number into
\* the next one: uncertainty and counters reset, the rating remembered and kept
CarriedOver(before, after, batch_number, cfg) ==
    /\ after.batch_number = batch_number + 1
    /\ after.rd = cfg.glicko_initial_rd
    /\ after.sigma = cfg.glicko_initial_volatility
    /\ after.previous_batch_rating = before.rating
    /\ after.matches_played = 0
    /\ after.wins = 0
    /\ after.losses = 0
    /\ after.rating = before.rating
    /\ after.story_id = before.story_id
    /\ after.piece = before.piece

\* C17 as stated: every next-generation step that succeeds carries each
\* top story it selected from generation g into generation g + 1, with rd
\* and sigma at the configured defaults, previous_batch_rating equal to the
\* rating it had, the three counters at 0, and rating, story_id and text
\* unchanged.
C17_TopStoriesCarriedOver ==
    [][NextGenerationSucceeds =>
         \A k \in DOMAIN conn :
             SelectedBy(steps'[Len(steps')], conn[k].story_id)
               => CarriedOver(conn[k], conn'[k],
                              steps'[Len(steps')].batch_number, config)]_vars

\* C17, amended: the same, for a next-generation step run with
\* next_batch_generation.include_original_stories set; without it the
\* selected stories stay in generation g as they are.
C17_TopStoriesCarriedOverWhenIncluded ==
    [][NextGenerationSucceeds /\ config.include_original_stories =>
         \A k \in DOMAIN conn :
             SelectedBy(steps'[Len(steps')], conn[k].story_id)
               => CarriedOver(conn[k], conn'[k],
                              steps'[Len(steps')].batch_number, config)]_vars

\* A story with a tournament record behind it has been promoted: its rating
\* is not the initial one, its uncertainty is
C17_Witness ==
    /\ NextGenerationDone
    /\ pipeline_pc = "tournament"
    /\ config.include_original_stories
    /\ \E k \in DOMAIN conn :
          /\ SelectedBy(steps[Len(steps)], conn[k].story_id)
          /\ conn[k].batch_number = steps[Len(steps)].batch_number + 1
          /\ conn[k].rating # config.glicko_initial_rating
          /\ conn[k].previous_batch_rating = conn[k].rating
          /\ conn[k].rd = config.glicko_initial_rd

\* The step taken is a next-generation step, successful or not
NextGenerationRuns ==
    /\ pipeline_pc = "loop"
    /\ Len(steps') > Len(steps)

\* ids are the story_ids of a top-K selection from stories_list: min(K, n)
\* distinct stories of the list, in non-increasing rating order, no story
\* left out being rated above a story taken
TopK(stories_list, top_k, ids) ==
    /\ Len(ids) = (IF top_k < Len(stories_list) THEN top_k ELSE Len(stories_list))
    /\ \A a \in DOMAIN ids :
          \E k \in DOMAIN stories_list : stories_list[k].story_id = ids[a]
    /\ \A a, b \in DOMAIN ids :
          a < b => /\ ids[a] # ids[b]
                   /\ RatingIn(stories_list, ids[a]) >= RatingIn(stories_list, ids[b])
    /\ \A k \in DOMAIN stories_list :
          (\A a \in DOMAIN ids : ids[a] # stories_list[k].story_id)
            => \A a \in DOMAIN ids :
                  stories_list[k].rating <= RatingIn(stories_list, ids[a])

\* C18: for the n stories of any latest generation of the store and every K
\* from 0 to n + 1, select_top_stories returns min(K, n) stories in
\* non-increasing rating order, and no story it leaves out is rated above a
\* story it returns; and what a next-generation step selects with the
\* configured K is such a selection from the generation it loaded.
C18_TopKSelection ==
    /\ [](conn # << >> =>
            \A top_k \in 0..(LatestPopulation(conn) + 1) :
                TopK(RowsOfBatch(conn, get_latest_batch_number(conn), 1), top_k,
                     StoryIdSeq(select_top_stories(
                         RowsOfBatch(conn, get_latest_batch_number(conn), 1), top_k))))
    /\ [][NextGenerationRuns =>
            TopK(RowsOfBatch(conn, get_latest_batch_number(conn), 1),
                 config.top_stories_to_select,
                 steps'[Len(steps')].top_story_ids)]_vars

\* A next-generation step has selected some but not all stories of a
\* generation, and its first choice is not the first row of the store
C18_Witness ==
    /\ NextGenerationDone
    /\ Len(steps[Len(steps)].top_story_ids) > 0
    /\ Len(steps[Len(steps)].top_story_ids) < steps[Len(steps)].population
    /\ conn[1].story_id # steps[Len(steps)].top_story_ids[1]

\* C19: every entity has wins + losses <= matches_played: every row of the
\* store, through initial generation, variant generation and promotion, and
\* every story of a running tournament.
C19_WinsAndLossesWithinMatches ==
    /\ \A k \in DOMAIN conn :
          conn[k].wins + conn[k].losses <= conn[k].matches_played
    /\ \A sid \in DOMAIN stories :
          stories[sid].wins + stories[sid].losses <= stories[sid].matches_played

\* A story with wins and losses on record has been promoted beside a new
\* variant, both with their counters at 0
C19_Witness ==
    /\ NextGenerationDone
    /\ \E k, v \in DOMAIN conn :
          /\ SelectedBy(steps[Len(steps)], conn[k].story_id)
          /\ conn[k].generation_type = "original_top_performer"
          /\ conn[k].batch_number = steps[Len(steps)].batch_number + 1
          /\ conn[k].matches_played = 0
          /\ conn[v].generation_type = "variant"
          /\ conn[v].parent_story_id = conn[k].story_id
          /\ conn[v].batch_number = conn[k].batch_number
          /\ conn[v].matches_played = 0
          /\ \E d \in Databases :
                \E j \in DOMAIN d.rows :
                    /\ d.rows[j].story_id = conn[k].story_id
                    /\ d.rows[j].wins > 0
                    /\ d.rows[j].losses > 0

\* Rows of the store with the given story_id
RowsWithId(rows, story_id) == {k \in DOMAIN rows : rows[k].story_id = story_id}

\* C20: every story_id ever inserted has exactly one row in the store, hence
\* one batch_number; no step removes a row or changes its story_id; and a
\* story promoted by a next-generation step out of generation g has its one
\* row in generation g + 1 afterwards, none in generation g.
C20_StoreIntegrity ==
    /\ [](\A story_id \in inserted : Cardinality(RowsWithId(conn, story_id)) = 1)
    /\ [][\A k \in DOMAIN conn :
             /\ k \in DOMAIN conn'
             /\ conn'[k].story_id = conn[k].story_id
             /\ conn[k].story_id \in inserted']_vars
    /\ [][NextGenerationSucceeds /\ config.include_original_stories =>
             \A q \in DOMAIN steps'[Len(steps')].top_story_ids :
                 \A k \in RowsWithId(conn', steps'[Len(steps')].top_story_ids[q]) :
                     /\ conn[k].batch_number = steps'[Len(steps')].batch_number
                     /\ conn'[k].batch_number = steps'[Len(steps')].batch_number + 1]_vars

\* A next-generation step has inserted a variant and promoted its parent,
\* leaving another story of the parent's generation behind
C20_Witness ==
    /\ NextGenerationDone
    /\ \E k, v, b \in DOMAIN conn :
          /\ SelectedBy(steps[Len(steps)], conn[k].story_id)
          /\ conn[k].batch_number = steps[Len(steps)].batch_number + 1
          /\ conn[v].generation_type = "variant"
          /\ conn[v].batch_number = steps[Len(steps)].batch_number + 1
          /\ v > Len(conn) - Len(steps[Len(steps)].top_story_ids) * config.variants_per_story
          /\ conn[b].batch_number = steps[Len(steps)].batch_number
          /\ ~SelectedBy(steps[Len(steps)], conn[b].story_id)

\* ------------------------------------------------------------------------
\* Storage round trip (Spec)
\* ------------------------------------------------------------------------

\* The Story objects read back from the results file written after the
\* tournament
Reloaded == load_stories_from_json(save_results(stories, match_history))

\* C21: an entity written to storage by save_results and read back by
\* load_stories_from_json has the rating, rd, sigma, matches_played, wins
\* and losses it had when it was written.
C21_RoundTrip ==
    Returned =>
        \A sid \in DOMAIN stories :
            \E k \in DOMAIN Reloaded :
                /\ Reloaded[k].story_id = sid
                /\ Reloaded[k].story.rating = stories[sid].rating
                /\ Reloaded[k].story.rd = stories[sid].rd
                /\ Reloaded[k].story.sigma = stories[sid].sigma
                /\ Reloaded[k].story.matches_played = stories[sid].matches_played
                /\ Reloaded[k].story.wins = stories[sid].wins
                /\ Reloaded[k].story.losses = stories[sid].losses

\* The results of a tournament with a match played have been written: the
\* file lists every story, and reading it back yields none
C21_Witness ==
    /\ Returned
    /\ Len(all_match_results) > 0
    /\ Len(save_results(stories, match_history).leaderboard) = Len(stories)
    /\ save_results(stories, match_history).total_matches = Len(match_history)
    /\ Reloaded = << >>

\* ------------------------------------------------------------------------
\* Numerical behaviour of one rating period (Spec)
\* ------------------------------------------------------------------------

\* The period of the tournament consisted of one match, between two stories
\* that entered it with the same rating and the same deviation
SingleMatchOfEquals ==
    /\ Returned
    /\ Len(all_match_results) = 1
    /\ initial_stories[all_match_results[1].winner].rating
         = initial_stories[all_match_results[1].loser].rating
    /\ initial_stories[all_match_results[1].winner].rd
         = initial_stories[all_match_results[1].loser].rd

\* The winner's rating has gone up and the loser's has gone down
RatingsMovedApart ==
    /\ stories[all_match_results[1].winner].rating
         > initial_stories[all_match_results[1].winner].rating
    /\ stories[all_match_results[1].loser].rating
         < initial_stories[all_match_results[1].loser].rating

\* C22 as stated: after a period of a single match between two stories of
\* equal rating and deviation, the winner's rating is strictly higher, the
\* loser's strictly lower, and both deviations are strictly below their
\* starting value.
C22_EqualPairAllDeviationsShrink ==
    SingleMatchOfEquals =>
        /\ RatingsMovedApart
        /\ \A sid \in {all_match_results[1].winner, all_match_results[1].loser} :
              stories[sid].rd < initial_stories[sid].rd

\* C22, amended: the ratings move apart whatever the common deviation is;
\* both deviations end strictly below their starting value when that value
\* is 100 or more (350 included), and strictly above it when it is 50: one
\* match then tells less than the volatility adds.
C22_EqualPairLargeDeviationsShrink ==
    SingleMatchOfEquals =>
        /\ RatingsMovedApart
        /\ \A sid \in {all_match_results[1].winner, all_match_results[1].loser} :
              /\ initial_stories[sid].rd >= 100 * PUB
                    => stories[sid].rd < initial_stories[sid].rd
              /\ initial_stories[sid].rd = 50 * PUB
                    => stories[sid].rd > initial_stories[sid].rd

\* Two stories at 1500/350 have played their single match: both deviations
\* are below 350
C22_Witness ==
    /\ SingleMatchOfEquals
    /\ RatingsMovedApart
    /\ \A sid \in DOMAIN stories :
          /\ initial_stories[sid].rd = DEFAULT_RD * PUB
          /\ stories[sid].rd < DEFAULT_RD * PUB

\* ------------------------------------------------------------------------
\* Internal and public scale (SpecPeriod)
\* ------------------------------------------------------------------------

\* mu = (rating - 1500) / 173.7178 and phi = rd / 173.7178, to within half a
\* step of the public scale (a tenth of a rating point)
InternalFromPublic(story) ==
    /\ 2 * Abs(story.mu - ToInternal(story.rating - BASE_RATING * PUB)) <= ToInternal(1) + 1
    /\ 2 * Abs(story.phi - ToInternal(story.rd)) <= ToInternal(1) + 1

\* The objects built anew from the public values of the given ones
Rebuilt(st) ==
    [sid \in DOMAIN st |->
        Story(st[sid].rating, st[sid].rd, st[sid].sigma,
              st[sid].matches_played, st[sid].wins, st[sid].losses)]

\* C24: whenever a rating period begins, every story's internal values are
\* those derived from its public rating and rd, also when the public values
\* were assigned after the object was constructed or come from an earlier
\* period.
C24_InternalValuesRecomputed ==
    [][rating_periods' = rating_periods + 1 =>
          \A sid \in DOMAIN stories : InternalFromPublic(stories[sid])]_vars

\* A period with a match has been processed on an object whose deviation was
\* reset after construction, and has ended otherwise than on the object
\* rebuilt from its public values
C24_Witness ==
    /\ rating_periods >= 1
    /\ Len(all_match_results) = 1
    /\ \E sid \in DOMAIN stories :
          /\ ~InternalFromPublic(initial_stories[sid])
          /\ initial_stories[sid].rd = DEFAULT_RD * PUB
          /\ stories[sid].rd
               # _process_rating_period(Rebuilt(initial_stories), all_match_results,
                                        << >>).stories[sid].rd

\* ------------------------------------------------------------------------
\* Deviation floor (SpecPeriod)
\* ------------------------------------------------------------------------

\* Floors an operator may want to configure, in rating points
Floors == {30, 50, 100}

\* No deviation is negative
DeviationNotNegative == \A sid \in DOMAIN stories : stories[sid].rd >= 0

\* C23: RD is never negative and never falls below the floor: whichever
\* floor is wanted, a story whose RD was at or above it when a rating period
\* began has an RD at or above it after the period, through any sequence of
\* periods with or without matches and resets of the deviation.
C23_DeviationKeepsFloor ==
    /\ DeviationNotNegative
    /\ rating_periods >= 1 =>
          \A floor \in Floors :
              \A sid \in DOMAIN stories :
                  initial_stories[sid].rd >= floor * PUB => stories[sid].rd >= floor * PUB

\* A story that entered a period at RD 100 has left it below 100
C23_Witness ==
    /\ rating_periods >= 1
    /\ Len(all_match_results) >= 1
    /\ \E sid \in DOMAIN stories :
          /\ initial_stories[sid].rd = 100 * PUB
          /\ InternalFromPublic(initial_stories[sid])
          /\ stories[sid].rd < 100 * PUB
          /\ stories[sid].rd > 0

\* ------------------------------------------------------------------------
\* Match history (Spec; the same formulas apply to SpecPeriod)
\* ------------------------------------------------------------------------

\* Position in match_history of the record of result k of the latest period
RecordOf(k) == Len(match_history) - Len(all_match_results) + k

\* Record h is the record of result res of the latest period
RecordsResult(h, res) ==
    /\ h.story1_id = res.story1
    /\ h.story2_id = res.story2
    /\ h.winner_id = res.winner
    /\ h.winner_id \in {h.story1_id, h.story2_id}
    /\ h.story1_rating_before = initial_stories[h.story1_id].rating
    /\ h.story2_rating_before = initial_stories[h.story2_id].rating
    /\ h.story1_rating_after = stories[h.story1_id].rating
    /\ h.story2_rating_after = stories[h.story2_id].rating

\* C25: the records written for a period, one per result and in order, name
\* as winner one of the two stories and carry for each story its rating at
\* the start of the period and its rating after the period's update (the
\* same values in every record of the period that involves the story); and
\* no step changes or removes a record that match_history already holds.
C25_HistoryRecords ==
    /\ [](rating_periods >= 1 =>
             /\ Len(match_history) >= Len(all_match_results)
             /\ \A k \in DOMAIN all_match_results :
                   RecordsResult(match_history[RecordOf(k)], all_match_results[k]))
    /\ [][\A k \in DOMAIN match_history :
             /\ k \in DOMAIN match_history'
             /\ match_history'[k] = match_history[k]]_vars

\* A period of two matches between the same two stories has been recorded:
\* both records carry the same before and after values, which differ
C25_Witness ==
    /\ rating_periods >= 1
    /\ Len(match_history) = 2
    /\ match_history[1].story1_rating_before # match_history[1].story1_rating_after
    /\ \E a, b \in {"story1", "story2"} :
          /\ match_history[1][a \o "_id"] = match_history[2][b \o "_id"]
          /\ match_history[1][a \o "_rating_before"] = match_history[2][b \o "_rating_before"]
          /\ match_history[1][a \o "_rating_after"] = match_history[2][b \o "_rating_after"]

\* ------------------------------------------------------------------------
\* Variants (SpecPipeline)
\* ------------------------------------------------------------------------

\* The rows a step has added to the store
NewRows == (Len(conn) + 1)..Len(conn')

\* Row `variant` is a new variant of the story in row `parent`
VariantOf(variant, parent, cfg) ==
    /\ variant.generation_type = "variant"
    /\ variant.parent_story_id = parent.story_id
    /\ variant.story_id # parent.story_id
    /\ variant.rating = parent.rating
    /\ variant.previous_batch_rating = parent.rating
    /\ variant.rd = cfg.glicko_initial_rd
    /\ variant.sigma = cfg.glicko_initial_volatility
    /\ variant.matches_played = 0
    /\ variant.wins = 0
    /\ variant.losses = 0

\* C26: every row a next-generation step adds is a variant of one of the
\* top stories the step selected: a story_id not seen before and different
\* from its parent's, the rating the parent had when selected also as
\* previous_batch_rating, rd and sigma at the configured defaults,
\* parent_story_id the parent's id, the three counters at 0; each top story
\* gets at most variants_per_story variants, a failed call adding no row;
\* and a step that fails adds none.
C26_VariantFields ==
    [][NextGenerationRuns =>
         /\ \A v \in NewRows :
               /\ conn'[v].story_id \notin inserted
               /\ \A w \in NewRows : w # v => conn'[w].story_id # conn'[v].story_id
               /\ \E k \in DOMAIN conn :
                     /\ SelectedBy(steps'[Len(steps')], conn[k].story_id)
                     /\ VariantOf(conn'[v], conn[k], config)
               /\ conn'[v].batch_number = steps'[Len(steps')].batch_number + 1
         /\ \A k \in DOMAIN conn :
               Cardinality({v \in NewRows : conn'[v].parent_story_id = conn[k].story_id})
                 <= config.variants_per_story
         /\ Len(conn') >= Len(conn)
         /\ ~steps'[Len(steps')].ok => Len(conn') = Len(conn)]_vars

\* A next-generation step has added a variant of a parent whose rating is
\* not the initial one, while another of its generation calls failed
C26_Witness ==
    /\ NextGenerationDone
    /\ \E k, v \in DOMAIN conn :
          /\ conn[v].generation_type = "variant"
          /\ conn[v].batch_number = steps[Len(steps)].batch_number + 1
          /\ v > Len(conn) - Len(steps[Len(steps)].top_story_ids) * config.variants_per_story
          /\ conn[v].parent_story_id = conn[k].story_id
          /\ SelectedBy(steps[Len(steps)], conn[k].story_id)
          /\ conn[v].rating = conn[k].rating
          /\ conn[v].rating # config.glicko_initial_rating
          /\ conn[v].rd = config.glicko_initial_rd
          /\ Cardinality({w \in DOMAIN conn :
                            /\ conn[w].generation_type = "variant"
                            /\ conn[w].batch_number = conn[v].batch_number})
               < Len(steps[Len(steps)].top_story_ids) * config.variants_per_story

\* ------------------------------------------------------------------------
\* Match accounting (Spec)
\* ------------------------------------------------------------------------

\* Increase of a counter over the tournament, for story sid
WinsGained(sid) == stories[sid].wins - initial_stories[sid].wins

LossesGained(sid) == stories[sid].losses - initial_stories[sid].losses

MatchesGained(sid) == stories[sid].matches_played - initial_stories[sid].matches_played

\* Sum of f over the stories 1..n
RECURSIVE Total(_, _)
Total(f, n) == IF n = 0 THEN 0 ELSE f[n] + Total(f, n - 1)

\* C27: when run_tournament has returned, the count it returned is the
\* number of entries it added to match_history, the total of the wins gained
\* and the total of the losses gained by the stories; and every story gained
\* as many matches_played as wins and losses together, which is the number
\* of successful matches it took part in.
C27_MatchAccounting ==
    Returned =>
        /\ ret.kind = "int"
        /\ ret.value = Len(match_history)
        /\ ret.value = Total([sid \in DOMAIN stories |-> WinsGained(sid)], Len(stories))
        /\ ret.value = Total([sid \in DOMAIN stories |-> LossesGained(sid)], Len(stories))
        /\ \A sid \in DOMAIN stories :
              /\ WinsGained(sid) >= 0
              /\ LossesGained(sid) >= 0
              /\ MatchesGained(sid) = WinsGained(sid) + LossesGained(sid)
              /\ MatchesGained(sid) = AnsweredWith(sid, Len(match_pairs))

\* A tournament has returned one less than the number of its pairings: one
\* match failed, and a story with earlier matches on record took part in a
\* successful one
C27_Witness ==
    /\ Returned
    /\ Len(match_pairs) >= 2
    /\ ret = [kind |-> "int", value |-> Len(match_pairs) - 1]
    /\ \E k \in DOMAIN judge_log : judge_log[k].outcome = "failed"
    /\ \E sid \in DOMAIN stories :
          /\ MatchesGained(sid) >= 1
          /\ initial_stories[sid].matches_played > 0

\* ------------------------------------------------------------------------
\* A new generation after every successful step (SpecPipeline)
\* ------------------------------------------------------------------------

\* C28: whenever a next-generation step reports success, the latest batch
\* number of the store has increased by exactly one and the new batch is not
\* empty, whatever include_original_stories is and however many of the
\* variant generation calls failed.
C28_SuccessMeansNewGeneration ==
    [][NextGenerationSucceeds =>
         /\ get_latest_batch_number(conn') = get_latest_batch_number(conn) + 1
         /\ LatestPopulation(conn') > 0]_vars

\* A next-generation step run without include_original_stories has
\* reported success although every variant generation call failed: the
\* store is as it was and the tournament is next
C28_Witness ==
    /\ NextGenerationDone
    /\ pipeline_pc = "tournament"
    /\ ~config.include_original_stories
    /\ Len(steps[Len(steps)].top_story_ids) > 0
    /\ get_latest_batch_number(conn) = steps[Len(steps)].batch_number
    /\ \E d \in Databases : conn = d.rows

\* ------------------------------------------------------------------------
\* Termination and the number of steps (SpecPipelineReturns)
\* ------------------------------------------------------------------------

\* The steps of the current run with the given name, made in the given cycle
StepsOf(name, at_cycle) ==
    {k \in DOMAIN steps : steps[k].step = name /\ steps[k].cycle = at_cycle}

\* The generation and tournament steps of the current run
WorkSteps == {k \in DOMAIN steps : steps[k].step # "export"}

\* The cycles of the current run in which both steps succeeded
CompletedCycles ==
    {c \in 1..max_iterations :
        /\ \E k \in StepsOf("next_generation", c) : steps[k].ok
        /\ \E k \in StepsOf("tournament", c) : steps[k].ok}

\* run_pipeline is between its call and its return
Running == pipeline_pc \notin {"idle", "returned"}

\* C29: a started run_pipeline(N) returns; it makes at most two setup steps
\* and, in each of the cycles 1..N only, at most one generation and one
\* tournament step, hence at most 2 + 2N steps, and at most one export;
\* when it returns True iterations_completed is N, and in any case it is the
\* number of cycles in which both the generation and the tournament step
\* succeeded.
C29_PipelineTerminates ==
    /\ Running ~> pipeline_pc = "returned"
    /\ [](/\ Cardinality(WorkSteps) <= 2 + 2 * max_iterations
          /\ \A k \in WorkSteps : steps[k].cycle \in 0..max_iterations
          /\ Cardinality(StepsOf("initial_generation", 0)) <= 1
          /\ \A c \in 0..max_iterations :
                /\ Cardinality(StepsOf("next_generation", c)) <= (IF c = 0 THEN 0 ELSE 1)
                /\ Cardinality(StepsOf("tournament", c)) <= 1
          /\ Cardinality(DOMAIN steps \ WorkSteps) <= 1
          /\ iterations_completed = Cardinality(CompletedCycles)
          /\ pipeline_pc = "returned" /\ pipeline_ret = TRUE
               => iterations_completed = max_iterations)

\* A run of one cycle has halted and returned after its generation step
\* succeeded and its tournament step failed, with no cycle completed and
\* nothing exported
C29_Witness ==
    /\ pipeline_pc = "returned"
    /\ max_iterations = 1
    /\ pipeline_ret = FALSE
    /\ Cardinality(WorkSteps) = 2
    /\ \E k \in StepsOf("next_generation", 1) : steps[k].ok
    /\ \E k \in StepsOf("tournament", 1) : ~steps[k].ok
    /\ iterations_completed = 0
    /\ DOMAIN steps = WorkSteps

\* ------------------------------------------------------------------------
\* Returned matches of the Elo tournament (SpecElo)
\* ------------------------------------------------------------------------

\* The matches of a list that story sid played, won, lost
MatchesOf(matches, sid) ==
    {n \in DOMAIN matches : sid \in {matches[n].story1_id, matches[n].story2_id}}

MatchesWonBy(matches, sid) ==
    {n \in MatchesOf(matches, sid) : matches[n].winner_id = sid}

\* Number of positions of a list that hold the match m
Occurrences(matches, m) == Cardinality({n \in DOMAIN matches : matches[n] = m})

\* C30: when EloRankingSystem.run_tournament has returned, the returned
\* list holds exactly the matches appended to match_history during the call,
\* and every story's matches_played, wins and losses are its initial ones
\* plus its matches, wins and losses among the returned matches, its elo
\* unchanged if it is in none of them; also after a batch timeout.
C30_ReturnedMatchesAreTheHistory ==
    pc = "done" =>
        /\ ret.kind = "list"
        /\ Len(ret.value) = Len(match_history)
        /\ \A n \in DOMAIN match_history :
              Occurrences(ret.value, match_history[n])
                = Occurrences(match_history, match_history[n])
        /\ \A sid \in DOMAIN stories :
              /\ stories[sid].matches_played
                   = initial_stories[sid].matches_played
                     + Cardinality(MatchesOf(ret.value, sid))
              /\ stories[sid].wins
                   = initial_stories[sid].wins
                     + Cardinality(MatchesWonBy(ret.value, sid))
              /\ stories[sid].losses
                   = initial_stories[sid].losses
                     + Cardinality(MatchesOf(ret.value, sid))
                     - Cardinality(MatchesWonBy(ret.value, sid))
              /\ MatchesOf(ret.value, sid) = {} => stories[sid].elo = initial_stories[sid].elo

\* A batch of two matches timed out after one of them had resolved: the
\* match is in match_history and has moved the ratings and counters of its
\* stories, and the returned list is empty
C30_Witness ==
    /\ pc = "done"
    /\ TimedOut
    /\ ret = [kind |-> "list", value |-> << >>]
    /\ Len(match_history) = 1
    /\ \E k \in DOMAIN judge_log : judge_log[k].outcome = "answered"
    /\ \E sid \in DOMAIN stories :
          /\ stories[sid].elo # initial_stories[sid].elo
          /\ stories[sid].matches_played = initial_stories[sid].matches_played + 1
====
